---------------------------- MODULE Spec2Model ----------------------------
(***************************************************************************)
(* Model of the aggregation core of the Ecommerce-Trend-Analyser:          *)
(* agents/brand_agent.py, agents/pricing_agent.py, agents/feature_agent.py,*)
(* agents/gap_agent.py and core/orchestrator.py, with core/validator.py    *)
(* and llm/summarizer.py.                                                  *)
(*                                                                         *)
(* A DataFrame is a record [columns, rows]; a cell is a record [t, s, n]:  *)
(* t = "na" (NaN / None), t = "str" (text, s is its sequence of            *)
(* characters) or t = "num" (an integer, n).  Real numbers are exact       *)
(* rationals <<numerator, denominator>> in lowest terms: the model's       *)
(* tables are small enough that no IEEE-754 rounding changes a comparison  *)
(* made below (thresholds and row counts are chosen so that every quotient *)
(* that is compared for equality is exactly representable).  round(x, k)   *)
(* is modelled as the integer number of 10^-k units.                       *)
(***************************************************************************)
EXTENDS Integers, Sequences, FiniteSets, TLC

VARIABLES df, call, timestamps, summary, server, session, page

vars == <<df, call, timestamps, summary, server, session, page>>

\* the state of the dashboard
dashboard == <<server, session, page>>

---------------------------------------------------------------------------
(* Bounds of the model *)

MaxRows == 3
MaxClock == 1

---------------------------------------------------------------------------
(* Sequences *)

Range(s) == {s[i] : i \in DOMAIN s}

RECURSIVE SeqSum(_)
SeqSum(s) == IF s = <<>> THEN 0 ELSE Head(s) + SeqSum(Tail(s))

\* s.head(n): the first n elements (all of them when there are fewer)
HeadN(s, n) == IF Len(s) <= n THEN s ELSE SubSeq(s, 1, n)

\* the distinct elements of s in order of first appearance
RECURSIVE UniqueSeq(_)
UniqueSeq(s) ==
    IF s = <<>> THEN <<>>
    ELSE LET init == UniqueSeq(SubSeq(s, 1, Len(s) - 1))
             x    == s[Len(s)]
         IN  IF x \in Range(init) THEN init ELSE Append(init, x)

Occurrences(s, x) == Cardinality({i \in DOMAIN s : s[i] = x})

---------------------------------------------------------------------------
(* Exact rational arithmetic for Python floats *)

Abs(x) == IF x < 0 THEN -x ELSE x

RECURSIVE GCD(_, _)
GCD(a, b) == IF b = 0 THEN a ELSE GCD(b, a % b)

\* the rational n/d (d # 0) in lowest terms with a positive denominator
Q(n, d) ==
    LET g == GCD(Abs(n), Abs(d))
        sg == IF d < 0 THEN -1 ELSE 1
    IN  <<sg * (n \div g), sg * (d \div g)>>

QInt(n) == <<n, 1>>
QAdd(a, b) == Q(a[1] * b[2] + b[1] * a[2], a[2] * b[2])
QSub(a, b) == Q(a[1] * b[2] - b[1] * a[2], a[2] * b[2])
QMul(a, b) == Q(a[1] * b[1], a[2] * b[2])
QDiv(a, b) == Q(a[1] * b[2], a[2] * b[1])
QLt(a, b) == a[1] * b[2] < b[1] * a[2]
QLeq(a, b) == a[1] * b[2] <= b[1] * a[2]
QMin(a, b) == IF QLeq(a, b) THEN a ELSE b

\* floor of n/d for d > 0 (\div already rounds toward minus infinity)
FloorDiv(n, d) == n \div d

\* round(x, k) as the integer number of 1/scale units (scale = 10^k):
\* nearest, an exact tie going to the even neighbour
RoundScaled(x, scale) ==
    LET num == x[1] * scale
        den == x[2]
        lo  == FloorDiv(num, den)
        twice == 2 * (num - lo * den)
    IN  IF twice < den THEN lo
        ELSE IF twice > den THEN lo + 1
        ELSE IF lo % 2 = 0 THEN lo ELSE lo + 1

Round4(x) == RoundScaled(x, 10000)
Round2(x) == RoundScaled(x, 100)

---------------------------------------------------------------------------
(* Cells and tables *)

NA == [t |-> "na", s |-> <<>>, n |-> 0]
Str(chars) == [t |-> "str", s |-> chars, n |-> 0]
Num(i) == [t |-> "num", s |-> <<>>, n |-> i]

\* pd.notna
NotNa(c) == c.t # "na"

TableColumns == <<"brand", "price", "feature", "wifi", "color">>

MkRow(b, p, f, w, c) ==
    [brand |-> b, price |-> p, feature |-> f, wifi |-> w, color |-> c]

\* the rows a table of the model is built from
RowPool ==
    { MkRow(Str(<<"X">>), Num(100), Str(<<"a">>), Num(1), Str(<<"r">>)),
      MkRow(Str(<<"X">>), Num(200), Str(<<"b">>), Num(0), Str(<<"r">>)),
      MkRow(Str(<<"Y">>), Num(300), Str(<<"a">>), Num(0), Str(<<"g">>)),
      MkRow(Str(<<"Y">>), Str(<<"x">>), Str(<<"a", ",", "a">>), Num(1), NA),
      MkRow(NA, NA, Str(<<"b", ";", " ", "A", "|">>), Num(0), Str(<<>>)),
      MkRow(Str(<<"X">>), Num(400), NA, Num(1), Str(<<"0">>)) }

\* len(df)
NRows(d) == Len(d.rows)

HasColumn(d, col) == col \in Range(d.columns)

\* df[col] as a sequence of cells (col is a column of d)
Column(d, col) == [i \in 1..NRows(d) |-> d.rows[i][col]]

\* a variant that keeps the missing values
DropNa_KeepAll(cells) == cells

\* Series.dropna()
DropNa(cells) == SelectSeq(cells, NotNa)

---------------------------------------------------------------------------
(* Outcomes of a call: a returned value or a raised ValueError *)

None == [t |-> "None"]

Return(v) == [ok |-> TRUE, value |-> v, error |-> None]
Raise(e) == [ok |-> FALSE, value |-> None, error |-> e]

\* ValueError(f"Column '{col}' not found in DataFrame")
ColumnNotFound(col) ==
    [kind |-> "ValueError", message |-> "Column not found in DataFrame", column |-> col]

\* ValueError(f"No valid price data found in column '{col}'")
NoValidPrices(col) ==
    [kind |-> "ValueError", message |-> "No valid price data found in column", column |-> col]

\* ValueError("No feature column specified and none auto-detected")
NoFeatureSource ==
    [kind |-> "ValueError", message |-> "No feature column specified and none auto-detected",
     column |-> "None"]

---------------------------------------------------------------------------
(* pandas Series.value_counts(): the non-missing values in order of first  *)
(* appearance with their counts, then sorted by count, descending.  The    *)
(* sort reads the counts only, so it is modelled as the stable sort: equal *)
(* counts stay in order of first appearance.                               *)

Entry(label, count) == [label |-> label, count |-> count]

RECURSIVE InsertByCountDesc(_, _)
InsertByCountDesc(x, s) ==
    IF s = <<>> THEN <<x>>
    ELSE IF x.count > Head(s).count THEN <<x>> \o s
         ELSE <<Head(s)>> \o InsertByCountDesc(x, Tail(s))

RECURSIVE SortByCountDesc(_)
SortByCountDesc(s) ==
    IF s = <<>> THEN <<>>
    ELSE InsertByCountDesc(s[Len(s)], SortByCountDesc(SubSeq(s, 1, Len(s) - 1)))

\* a variant that counts each distinct value once
ValueCounts_Presence(values) ==
    LET keys == UniqueSeq(DropNa(values))
    IN  [i \in 1..Len(keys) |-> Entry(keys[i], 1)]

ValueCounts(values) ==
    LET present == DropNa(values)
        keys == UniqueSeq(present)
    IN  SortByCountDesc([i \in 1..Len(keys) |-> Entry(keys[i], Occurrences(present, keys[i]))])

RECURSIVE SumCounts(_)
SumCounts(entries) ==
    IF entries = <<>> THEN 0 ELSE Head(entries).count + SumCounts(Tail(entries))

---------------------------------------------------------------------------
(* core/validator.py *)

\* DataFrame.drop_duplicates(): of equal rows the first is kept (two missing
\* values are equal here)
remove_duplicates(d) == [d EXCEPT !.rows = UniqueSeq(@)]

\* the row has a missing value in one of the columns of d
RowHasNa(d, row) == \E c \in Range(d.columns) : ~NotNa(row[c])

\* the column has a missing value in one of the rows of d
ColumnHasNa(d, col) == \E i \in 1..NRows(d) : ~NotNa(d.rows[i][col])

\* the table d reduced to the columns kept, a subsequence of its columns
SelectColumns(d, kept) ==
    [columns |-> kept,
     rows |-> [i \in 1..NRows(d) |-> [c \in Range(kept) |-> d.rows[i][c]]]]

\* ValueError(f"Unknown strategy: {strategy}")
UnknownStrategy(strategy) ==
    [kind |-> "ValueError", message |-> "Unknown strategy", column |-> strategy]

\* ValueError(f"Missing required columns: {missing}")
MissingRequiredColumns(missing) ==
    [kind |-> "ValueError", message |-> "Missing required columns", column |-> missing]

\* ValueError("DataFrame is empty after cleaning")
EmptyAfterCleaning ==
    [kind |-> "ValueError", message |-> "DataFrame is empty after cleaning", column |-> "None"]

clean_missing_values(d, strategy) ==
    IF strategy = "drop_rows"
    THEN Return([d EXCEPT !.rows = SelectSeq(@, LAMBDA row : ~RowHasNa(d, row))])
    ELSE IF strategy = "drop_columns"
    THEN Return(SelectColumns(d, SelectSeq(d.columns, LAMBDA col : ~ColumnHasNa(d, col))))
    ELSE IF strategy = "keep" THEN Return(d)
    ELSE Raise(UnknownStrategy(strategy))

validate_required_columns(d, required_columns) ==
    Range(required_columns) \subseteq Range(d.columns)

get_missing_columns(d, required_columns) == Range(required_columns) \ Range(d.columns)

\* DataFrame.empty: an axis of length 0
IsEmpty(d) == NRows(d) = 0 \/ Len(d.columns) = 0

\* required_columns = <<>> stands for None as well (both falsy)
validate_and_clean(d, required_columns, cleaning_strategy, remove_dupes) ==
    IF required_columns # <<>> /\ ~validate_required_columns(d, required_columns)
    THEN Raise(MissingRequiredColumns(get_missing_columns(d, required_columns)))
    ELSE LET deduped == IF remove_dupes THEN remove_duplicates(d) ELSE d
             cleaned == clean_missing_values(deduped, cleaning_strategy)
         IN  IF ~cleaned.ok THEN cleaned
             ELSE IF IsEmpty(cleaned.value) THEN Raise(EmptyAfterCleaning)
             ELSE cleaned

---------------------------------------------------------------------------
(* agents/brand_agent.py *)

count_brands(d, brand_column) ==
    IF ~HasColumn(d, brand_column) THEN Raise(ColumnNotFound(brand_column))
    ELSE Return(ValueCounts(Column(d, brand_column)))

get_top_brands(brand_counts, top_n) == HeadN(brand_counts, top_n)

\* a variant that divides by the sum of the counts it is given
calculate_brand_confidence_OverCounted(brand_counts, total_records) ==
    IF total_records = 0 THEN <<>>
    ELSE [i \in 1..Len(brand_counts) |->
            [label |-> brand_counts[i].label,
             confidence |-> Q(brand_counts[i].count, SumCounts(brand_counts))]]

\* the dict label -> count / total_records; the empty dict when there are no records
calculate_brand_confidence(brand_counts, total_records) ==
    IF total_records = 0 THEN <<>>
    ELSE [i \in 1..Len(brand_counts) |->
            [label |-> brand_counts[i].label,
             confidence |-> Q(brand_counts[i].count, total_records)]]

\* confidence_scores.get(label, 0.0)
GetScore(confidence_scores, label) ==
    IF \E i \in DOMAIN confidence_scores : confidence_scores[i].label = label
    THEN (CHOOSE e \in Range(confidence_scores) : e.label = label).confidence
    ELSE QInt(0)

\* sum(confidence_scores.values())
RECURSIVE SumScores(_)
SumScores(confidence_scores) ==
    IF confidence_scores = <<>> THEN QInt(0)
    ELSE QAdd(Head(confidence_scores).confidence, SumScores(Tail(confidence_scores)))

analyze_brands(d, brand_column, top_n) ==
    LET total_records == NRows(d)
        counted == count_brands(d, brand_column)
    IN  IF ~counted.ok THEN counted
        ELSE LET brand_counts == counted.value
                 top_brands == get_top_brands(brand_counts, top_n)
                 confidence_scores == calculate_brand_confidence(top_brands, total_records)
                 overall_confidence == SumScores(confidence_scores)
                 brand_list ==
                     [i \in 1..Len(top_brands) |->
                        [brand |-> top_brands[i].label,
                         count |-> top_brands[i].count,
                         confidence |-> Round4(GetScore(confidence_scores, top_brands[i].label))]]
             IN  Return([agent_name |-> "brand_agent",
                         results |-> [total_unique_brands |-> Len(brand_counts),
                                      top_brands |-> brand_list,
                                      total_records |-> total_records],
                         confidence |-> Round4(QMin(overall_confidence, QInt(1)))])

---------------------------------------------------------------------------
(* agents/pricing_agent.py *)

Digits == {"0", "1", "2", "3", "4", "5", "6", "7", "8", "9"}

DigitValue(c) ==
    CASE c = "0" -> 0 [] c = "1" -> 1 [] c = "2" -> 2 [] c = "3" -> 3 [] c = "4" -> 4
      [] c = "5" -> 5 [] c = "6" -> 6 [] c = "7" -> 7 [] c = "8" -> 8 [] c = "9" -> 9

RECURSIVE ParseDigits(_)
ParseDigits(chars) ==
    IF chars = <<>> THEN 0
    ELSE 10 * ParseDigits(SubSeq(chars, 1, Len(chars) - 1)) + DigitValue(chars[Len(chars)])

\* a variant that turns what it cannot parse into 0
ToNumeric_ZeroFill(c) ==
    IF c.t = "num" THEN c
    ELSE IF c.t = "str" /\ c.s # <<>> /\ Range(c.s) \subseteq Digits THEN Num(ParseDigits(c.s))
    ELSE Num(0)

\* pd.to_numeric(cell, errors='coerce'): a number stays, a text of digits is
\* parsed, anything else becomes NaN
ToNumeric(c) ==
    IF c.t = "num" THEN c
    ELSE IF c.t = "str" /\ c.s # <<>> /\ Range(c.s) \subseteq Digits THEN Num(ParseDigits(c.s))
    ELSE NA

\* the valid prices, as integers, in row order
extract_price_column(d, price_column) ==
    IF ~HasColumn(d, price_column) THEN Raise(ColumnNotFound(price_column))
    ELSE LET coerced == [i \in 1..NRows(d) |-> ToNumeric(d.rows[i][price_column])]
             kept == DropNa(coerced)
             prices == [i \in 1..Len(kept) |-> kept[i].n]
         IN  IF Len(prices) = 0 THEN Raise(NoValidPrices(price_column))
             ELSE Return(prices)

RECURSIVE InsertAsc(_, _)
InsertAsc(x, s) ==
    IF s = <<>> THEN <<x>>
    ELSE IF x < Head(s) THEN <<x>> \o s
         ELSE <<Head(s)>> \o InsertAsc(x, Tail(s))

RECURSIVE SortAsc(_)
SortAsc(s) == IF s = <<>> THEN <<>> ELSE InsertAsc(Head(s), SortAsc(Tail(s)))

\* a variant that takes the lower of the two closest ranks
Quantile_Lower(prices, qn, qd) ==
    LET sorted == SortAsc(prices)
        n == Len(sorted)
        lo == FloorDiv((n - 1) * qn, qd)
    IN  QInt(sorted[lo + 1])

\* Series.quantile(q), q = qn/qd: linear interpolation between closest ranks
Quantile(prices, qn, qd) ==
    LET sorted == SortAsc(prices)
        n == Len(sorted)
        lo == FloorDiv((n - 1) * qn, qd)
        frac == Q((n - 1) * qn - lo * qd, qd)
    IN  IF lo + 1 >= n THEN QInt(sorted[n])
        ELSE QAdd(QInt(sorted[lo + 1]),
                  QMul(QInt(sorted[lo + 2] - sorted[lo + 1]), frac))

Mean(prices) == Q(SeqSum(prices), Len(prices))

\* NaN, the float pandas gives for the standard deviation of one value
NaN == <<0, 0>>

\* the square of Series.std() (n - 1 in the denominator): the model keeps the
\* variance, which is rational, in place of its square root
Variance(prices) ==
    LET n == Len(prices)
        total == SeqSum(prices)
        \* sum of (n x - total)^2 = n^2 * sum of (x - mean)^2
        sq == SeqSum([i \in 1..n |-> (n * prices[i] - total) * (n * prices[i] - total)])
    IN  IF n < 2 THEN NaN ELSE Q(sq, n * n * (n - 1))

calculate_price_statistics(prices) ==
    LET sorted == SortAsc(prices)
    IN  [min_price |-> QInt(sorted[1]),
         max_price |-> QInt(sorted[Len(sorted)]),
         mean_price |-> Mean(prices),
         median_price |-> Quantile(prices, 1, 2),
         std_price_squared |-> Variance(prices)]

calculate_optimal_price_range(prices) ==
    LET q1 == Quantile(prices, 1, 4)
        q2 == Quantile(prices, 1, 2)
        q3 == Quantile(prices, 3, 4)
    IN  [q1_price |-> q1,
         median_price |-> q2,
         q3_price |-> q3,
         optimal_range_min |-> q1,
         optimal_range_max |-> q3,
         optimal_range_span |-> QSub(q3, q1)]

analyze_pricing(d, price_column) ==
    LET total_records == NRows(d)
        extracted == extract_price_column(d, price_column)
    IN  IF ~extracted.ok THEN extracted
        ELSE LET prices == extracted.value
                 valid_price_count == Len(prices)
                 confidence == IF total_records > 0 THEN Q(valid_price_count, total_records)
                               ELSE QInt(0)
             IN  Return([agent_name |-> "pricing_agent",
                         results |-> [total_records |-> total_records,
                                      valid_price_records |-> valid_price_count,
                                      price_statistics |-> calculate_price_statistics(prices),
                                      optimal_price_range |-> calculate_optimal_price_range(prices)],
                         confidence |-> Round4(confidence)])

---------------------------------------------------------------------------
(* Python str operations on sequences of characters *)

UpperLetters ==
    <<"A", "B", "C", "D", "E", "F", "G", "H", "I", "J", "K", "L", "M",
      "N", "O", "P", "Q", "R", "S", "T", "U", "V", "W", "X", "Y", "Z">>
LowerLetters ==
    <<"a", "b", "c", "d", "e", "f", "g", "h", "i", "j", "k", "l", "m",
      "n", "o", "p", "q", "r", "s", "t", "u", "v", "w", "x", "y", "z">>

Whitespace == {" "}

LowerChar(c) ==
    IF c \in Range(UpperLetters)
    THEN LowerLetters[CHOOSE i \in DOMAIN UpperLetters : UpperLetters[i] = c]
    ELSE c

\* str.lower()
StrLower(chars) == [i \in 1..Len(chars) |-> LowerChar(chars[i])]

\* a variant that replaces nothing
StrReplace_Nothing(chars, old, new) == chars

\* str.replace(old, new) for single characters
StrReplace(chars, old, new) == [i \in 1..Len(chars) |-> IF chars[i] = old THEN new ELSE chars[i]]

\* str.strip()
RECURSIVE StrStrip(_)
StrStrip(chars) ==
    IF chars = <<>> THEN <<>>
    ELSE IF Head(chars) \in Whitespace THEN StrStrip(Tail(chars))
    ELSE IF chars[Len(chars)] \in Whitespace THEN StrStrip(SubSeq(chars, 1, Len(chars) - 1))
    ELSE chars

\* str.split(sep) for a single character: always at least one piece
RECURSIVE StrSplit(_, _)
StrSplit(chars, sep) ==
    IF \A i \in DOMAIN chars : chars[i] # sep THEN <<chars>>
    ELSE LET k == CHOOSE i \in DOMAIN chars :
                    chars[i] = sep /\ \A j \in 1..(i - 1) : chars[j] # sep
         IN  <<SubSeq(chars, 1, k - 1)>> \o StrSplit(SubSeq(chars, k + 1, Len(chars)), sep)

\* needle in haystack
Contains(haystack, needle) ==
    \E i \in 1..(Len(haystack) - Len(needle) + 1) :
        SubSeq(haystack, i, i + Len(needle) - 1) = needle

RECURSIVE DigitsOf(_)
DigitsOf(n) ==
    LET d == <<CHOOSE c \in Digits : DigitValue(c) = n % 10>>
    IN  IF n < 10 THEN d ELSE DigitsOf(n \div 10) \o d

\* the characters of a column name
NameChars(col) ==
    CASE col = "brand" -> <<"b", "r", "a", "n", "d">>
      [] col = "price" -> <<"p", "r", "i", "c", "e">>
      [] col = "feature" -> <<"f", "e", "a", "t", "u", "r", "e">>
      [] col = "Features" -> <<"F", "e", "a", "t", "u", "r", "e", "s">>
      [] col = "wifi" -> <<"w", "i", "f", "i">>
      [] col = "color" -> <<"c", "o", "l", "o", "r">>
      [] col = "nonexistent" -> <<"n", "o", "n", "e", "x", "i", "s", "t", "e", "n", "t">>

---------------------------------------------------------------------------
(* agents/feature_agent.py *)

\* the dtype pandas gives a column: int64 when every cell is an integer,
\* float64 when integers are mixed with NaN, object otherwise (the cells of
\* the model hold no booleans, so no column has dtype bool)
ColumnDtype(d, col) ==
    LET cells == Range(Column(d, col))
    IN  IF cells # {} /\ \A c \in cells : c.t = "num" THEN "int64"
        ELSE IF (\E c \in cells : c.t = "num") /\ \A c \in cells : c.t \in {"num", "na"}
             THEN "float64"
        ELSE "object"

\* str(value) of a number from a column of the given dtype
StrOfNumber(n, dtype) ==
    IF dtype = "float64" THEN DigitsOf(n) \o <<".", "0">> ELSE DigitsOf(n)

\* the tokens one non-missing value contributes
TokensOfValue(value, dtype) ==
    IF value.t = "str"
    THEN LET pieces == StrSplit(StrReplace(StrReplace(value.s, ";", ","), "|", ","), ",")
             nonblank(f) == StrStrip(f) # <<>>
             kept == SelectSeq(pieces, nonblank)
         IN  [i \in 1..Len(kept) |-> StrLower(StrStrip(kept[i]))]
    ELSE <<StrStrip(StrLower(StrOfNumber(value.n, dtype)))>>

RECURSIVE AllTokens(_, _)
AllTokens(values, dtype) ==
    IF values = <<>> THEN <<>>
    ELSE TokensOfValue(Head(values), dtype) \o AllTokens(Tail(values), dtype)

\* the feature counts: value_counts() of every token of the column
extract_features_from_column(d, feature_column) ==
    IF ~HasColumn(d, feature_column) THEN Raise(ColumnNotFound(feature_column))
    ELSE LET all_features == AllTokens(DropNa(Column(d, feature_column)),
                                       ColumnDtype(d, feature_column))
         IN  Return(ValueCounts([i \in 1..Len(all_features) |-> Str(all_features[i])]))

\* the label of a multi-column feature: the column name, or f"{col}: {value}"
ColumnLabel(col) == [column |-> col, value |-> NA]
ValueLabel(col, value) == [column |-> col, value |-> value]

\* feature_counts[label] = count on a dict kept as a sequence of entries
DictSet(dict, label, count) ==
    IF \E i \in DOMAIN dict : dict[i].label = label
    THEN [i \in DOMAIN dict |-> IF dict[i].label = label THEN Entry(label, count) ELSE dict[i]]
    ELSE Append(dict, Entry(label, count))

\* the entries one column adds: for the values in `todo`, in order
RECURSIVE AddValueCounts(_, _, _, _)
AddValueCounts(dict, cells, col, todo) ==
    IF todo = <<>> THEN dict
    ELSE LET value == Head(todo)
             counted == value.t = "num" \/ (value.s # <<>> /\ value.s # <<"0">>)
             next == IF counted
                     THEN DictSet(dict, ValueLabel(col, value), Occurrences(cells, value))
                     ELSE dict
         IN  AddValueCounts(next, cells, col, Tail(todo))

RECURSIVE AddColumnCounts(_, _, _)
AddColumnCounts(dict, d, cols) ==
    IF cols = <<>> THEN dict
    ELSE LET col == Head(cols)
             cells == IF HasColumn(d, col) THEN Column(d, col) ELSE <<>>
             nonzero == Cardinality({i \in DOMAIN cells : cells[i] # Num(0)})
             next == IF ~HasColumn(d, col) THEN dict
                     ELSE IF ColumnDtype(d, col) = "int64"
                          THEN DictSet(dict, ColumnLabel(col), nonzero)
                     ELSE AddValueCounts(dict, cells, col, UniqueSeq(DropNa(cells)))
         IN  AddColumnCounts(next, d, Tail(cols))

\* pd.Series(feature_counts): the dict in insertion order, not sorted
extract_features_from_multiple_columns(d, feature_columns) ==
    AddColumnCounts(<<>>, d, feature_columns)

get_top_features(feature_counts, top_n) == HeadN(feature_counts, top_n)

\* a variant that compares the names as they are written
AutoDetected_CaseSensitive(d) ==
    LET named(col) == Contains(NameChars(col), NameChars("feature"))
    IN  SelectSeq(d.columns, named)

\* the columns whose lower-cased name contains 'feature', in column order
AutoDetected(d) ==
    LET named(col) == Contains(StrLower(NameChars(col)), NameChars("feature"))
    IN  SelectSeq(d.columns, named)

\* feature_column = "" and feature_columns = <<>> stand for None (both falsy)
analyze_features(d, feature_column, feature_columns, top_n) ==
    LET total_records == NRows(d)
        extracted ==
            IF feature_column # "" THEN extract_features_from_column(d, feature_column)
            ELSE IF feature_columns # <<>>
                 THEN Return(extract_features_from_multiple_columns(d, feature_columns))
            ELSE IF AutoDetected(d) # <<>>
                 THEN extract_features_from_column(d, AutoDetected(d)[1])
            ELSE Raise(NoFeatureSource)
    IN  IF ~extracted.ok THEN extracted
        ELSE LET feature_counts == extracted.value
                 top_features == get_top_features(feature_counts, top_n)
                 score(count) == IF total_records > 0 THEN Q(count, total_records) ELSE QInt(0)
                 confidence_scores ==
                     [i \in 1..Len(top_features) |->
                        [label |-> top_features[i].label,
                         confidence |-> score(top_features[i].count)]]
                 overall_confidence == SumScores(confidence_scores)
                 feature_list ==
                     [i \in 1..Len(top_features) |->
                        [feature |-> top_features[i].label,
                         count |-> top_features[i].count,
                         confidence |-> Round4(GetScore(confidence_scores, top_features[i].label))]]
             IN  IF Len(feature_counts) = 0
                 THEN Return([agent_name |-> "feature_agent",
                              results |-> [total_features |-> 0,
                                           top_features |-> <<>>,
                                           total_records |-> total_records],
                              confidence |-> 0])
                 ELSE Return([agent_name |-> "feature_agent",
                              results |-> [total_unique_features |-> Len(feature_counts),
                                           top_features |-> feature_list,
                                           total_records |-> total_records,
                                           total_feature_mentions |-> SumCounts(feature_counts)],
                              confidence |-> Round4(QMin(overall_confidence, QInt(1)))])

---------------------------------------------------------------------------
(* agents/gap_agent.py *)

\* the characters of the model in code point order
CharOrder ==
    <<" ", ",", ".", "0", "1", "2", "3", "4", "5", "6", "7", "8", "9", ";">>
    \o UpperLetters \o LowerLetters \o <<"|">>

CharCode(c) == CHOOSE i \in DOMAIN CharOrder : CharOrder[i] = c

\* Python's a < b on str
RECURSIVE StrLt(_, _)
StrLt(a, b) ==
    IF b = <<>> THEN FALSE
    ELSE IF a = <<>> THEN TRUE
    ELSE IF Head(a) = Head(b) THEN StrLt(Tail(a), Tail(b))
    ELSE CharCode(Head(a)) < CharCode(Head(b))

\* the order groupby sorts its keys in (the model's key columns hold text
\* only; numbers are ordered among themselves and, by convention, first)
CellLt(a, b) ==
    IF a.t = "num" /\ b.t = "num" THEN a.n < b.n
    ELSE IF a.t = "num" \/ b.t = "num" THEN a.t = "num" /\ b.t # "num"
    ELSE StrLt(a.s, b.s)

PairLt(a, b) ==
    \/ CellLt(a.brand, b.brand)
    \/ a.brand = b.brand /\ CellLt(a.feature, b.feature)

RECURSIVE InsertPair(_, _)
InsertPair(x, s) ==
    IF s = <<>> THEN <<x>>
    ELSE IF PairLt(x, Head(s)) THEN <<x>> \o s
         ELSE <<Head(s)>> \o InsertPair(x, Tail(s))

RECURSIVE SortPairs(_)
SortPairs(s) == IF s = <<>> THEN <<>> ELSE InsertPair(Head(s), SortPairs(Tail(s)))

\* df[[brand_column, feature_column]].dropna(), in row order
ValidPairs(d, brand_column, feature_column) ==
    LET pairs == [i \in 1..NRows(d) |->
                    [brand |-> d.rows[i][brand_column], feature |-> d.rows[i][feature_column]]]
        valid(p) == NotNa(p.brand) /\ NotNa(p.feature)
    IN  SelectSeq(pairs, valid)

\* the frame brand, feature, count: one row per observed pair, in key order
get_brand_feature_combinations(d, brand_column, feature_column) ==
    IF ~HasColumn(d, brand_column) THEN Raise(ColumnNotFound(brand_column))
    ELSE IF ~HasColumn(d, feature_column) THEN Raise(ColumnNotFound(feature_column))
    ELSE LET valid_data == ValidPairs(d, brand_column, feature_column)
             keys == SortPairs(UniqueSeq(valid_data))
         IN  Return([i \in 1..Len(keys) |->
                        [brand |-> keys[i].brand,
                         feature |-> keys[i].feature,
                         count |-> Occurrences(valid_data, keys[i])]])

\* combination_counts.groupby('brand')['count'].sum().get(brand, 0)
BrandTotal(combination_counts, brand) ==
    SumCounts(SelectSeq(combination_counts, LAMBDA c : c.brand = brand))

FeatureTotal(combination_counts, feature) ==
    SumCounts(SelectSeq(combination_counts, LAMBDA c : c.feature = feature))

\* a variant dividing by the number of rows that have a valid pair
ExpectedCount_ValidRows(combination_counts, c, total_records) ==
    Q(BrandTotal(combination_counts, c.brand) * FeatureTotal(combination_counts, c.feature),
      SumCounts(combination_counts))

\* expected = (brand_total * feature_total) / total_records
ExpectedCount(combination_counts, c, total_records) ==
    Q(BrandTotal(combination_counts, c.brand) * FeatureTotal(combination_counts, c.feature),
      total_records)

\* a variant with the operands of the subtraction exchanged
GapScore_Reversed(observed, expected) ==
    IF QLt(QInt(0), expected) THEN QDiv(QSub(expected, QInt(observed)), expected)
    ELSE QInt(0)

\* gap_score = (observed - expected) / expected if expected > 0 else 0.0
GapScore(observed, expected) ==
    IF QLt(QInt(0), expected) THEN QDiv(QSub(QInt(observed), expected), expected)
    ELSE QInt(0)

\* a variant that, without records, leaves the difference undivided
calculate_expected_frequency_Undivided(combination_counts, total_records) ==
    [i \in 1..Len(combination_counts) |->
        LET c == combination_counts[i]
            expected == IF total_records = 0 THEN QInt(0)
                        ELSE ExpectedCount(combination_counts, c, total_records)
        IN  [brand |-> c.brand,
             feature |-> c.feature,
             count |-> c.count,
             expected_count |-> expected,
             gap_score |-> IF total_records = 0 THEN QSub(QInt(c.count), expected)
                           ELSE GapScore(c.count, expected)]]

calculate_expected_frequency(combination_counts, total_records) ==
    [i \in 1..Len(combination_counts) |->
        LET c == combination_counts[i]
            expected == IF total_records = 0 THEN QInt(0)
                        ELSE ExpectedCount(combination_counts, c, total_records)
        IN  [brand |-> c.brand,
             feature |-> c.feature,
             count |-> c.count,
             expected_count |-> expected,
             gap_score |-> IF total_records = 0 THEN QInt(0) ELSE GapScore(c.count, expected)]]

\* a variant of the filter with the strict comparison gap_score < threshold
IsGap_Strict(c, threshold, min_observations) ==
    QLt(c.gap_score, threshold) /\ c.count >= min_observations

\* the filter of identify_gaps
IsGap(c, threshold, min_observations) ==
    QLeq(c.gap_score, threshold) /\ c.count >= min_observations

\* sort_values('gap_score'): ascending; rows with equal scores keep their order
RECURSIVE InsertByGapAsc(_, _)
InsertByGapAsc(x, s) ==
    IF s = <<>> THEN <<x>>
    ELSE IF QLt(x.gap_score, Head(s).gap_score) THEN <<x>> \o s
         ELSE <<Head(s)>> \o InsertByGapAsc(x, Tail(s))

RECURSIVE SortByGapAsc(_)
SortByGapAsc(s) ==
    IF s = <<>> THEN <<>>
    ELSE InsertByGapAsc(s[Len(s)], SortByGapAsc(SubSeq(s, 1, Len(s) - 1)))

\* a variant that leaves the flagged combinations in the order of the frame
identify_gaps_Unsorted(combination_df, threshold, min_observations) ==
    SelectSeq(combination_df, LAMBDA c : IsGap(c, threshold, min_observations))

identify_gaps(combination_df, threshold, min_observations) ==
    SortByGapAsc(SelectSeq(combination_df, LAMBDA c : IsGap(c, threshold, min_observations)))

\* top_n: int = 10, the default run_all_agents leaves in place
GapTopNDefault == 10

\* min_observations is not a parameter of analyze_gaps: it passes the constant 1
AnalyzeGapsMinObservations == 1

analyze_gaps(d, brand_column, feature_column, gap_threshold, top_n) ==
    LET total_records == NRows(d)
        found == get_brand_feature_combinations(d, brand_column, feature_column)
    IN  IF ~found.ok THEN found
        ELSE IF Len(found.value) = 0
        THEN Return([agent_name |-> "gap_agent",
                     results |-> [total_combinations |-> 0,
                                  identified_gaps |-> <<>>,
                                  total_records |-> total_records],
                     confidence |-> 0])
        ELSE LET combinations == calculate_expected_frequency(found.value, total_records)
                 gaps == identify_gaps(combinations, gap_threshold, AnalyzeGapsMinObservations)
                 top_gaps == HeadN(gaps, top_n)
                 valid_records == SumCounts(combinations)
                 confidence == IF total_records > 0 THEN Q(valid_records, total_records)
                               ELSE QInt(0)
                 gap_list ==
                     [i \in 1..Len(top_gaps) |->
                        [brand |-> top_gaps[i].brand,
                         feature |-> top_gaps[i].feature,
                         observed_count |-> top_gaps[i].count,
                         expected_count |-> Round2(top_gaps[i].expected_count),
                         gap_score |-> Round4(top_gaps[i].gap_score)]]
             IN  Return([agent_name |-> "gap_agent",
                         results |-> [total_combinations |-> Len(combinations),
                                      identified_gaps_count |-> Len(gaps),
                                      top_gaps |-> gap_list,
                                      total_records |-> total_records,
                                      gap_threshold |-> gap_threshold],
                         confidence |-> Round4(confidence)])

---------------------------------------------------------------------------
(* core/orchestrator.py *)

\* a variant that leaves a failed agent out of the bundle and carries on
run_all_agents_Isolated(d, brand_column, price_column, feature_column, top_n_brands, top_n_features, gap_threshold) ==
    LET brand_result == analyze_brands(d, brand_column, top_n_brands)
        pricing_result == analyze_pricing(d, price_column)
        feature_result == analyze_features(d, feature_column, <<>>, top_n_features)
        gap_result == analyze_gaps(d, brand_column, feature_column, gap_threshold, GapTopNDefault)
        all == [brand |-> brand_result, pricing |-> pricing_result,
                feature |-> feature_result, gap |-> gap_result]
        done == {a \in DOMAIN all : all[a].ok}
    IN  Return([agents |-> [a \in done |-> all[a].value], total_records |-> NRows(d)])

\* the four agents run in order; the first exception ends the call
run_all_agents(d, brand_column, price_column, feature_column, top_n_brands, top_n_features, gap_threshold) ==
    LET brand_result == analyze_brands(d, brand_column, top_n_brands)
        pricing_result == analyze_pricing(d, price_column)
        feature_result == analyze_features(d, feature_column, <<>>, top_n_features)
        gap_result == analyze_gaps(d, brand_column, feature_column, gap_threshold, GapTopNDefault)
    IN  IF ~brand_result.ok THEN brand_result
        ELSE IF ~pricing_result.ok THEN pricing_result
        ELSE IF ~feature_result.ok THEN feature_result
        ELSE IF ~gap_result.ok THEN gap_result
        ELSE Return([agents |-> [brand |-> brand_result.value,
                                 pricing |-> pricing_result.value,
                                 feature |-> feature_result.value,
                                 gap |-> gap_result.value],
                     total_records |-> NRows(d)])

---------------------------------------------------------------------------
(* llm/summarizer.py.  The world outside the process is a record env:      *)
(* whether google.generativeai can be imported, the GEMINI_API_KEY of the   *)
(* process environment, what genai.list_models() does, whether prompt.txt   *)
(* exists, and what model.generate_content() does.  An outcome of the       *)
(* summarizer is the record [ret, generated]: what the caller gets and the  *)
(* generate_content calls that were made on the way.                        *)

\* "generateContent" and a method that is not it
GenerateContent == "generateContent"
EmbedContent == "embedContent"

Model(name, methods) == [name |-> name, supported_generation_methods |-> methods]

FlashName == <<"g", "e", "m", "i", "n", "i", "-", "1", ".", "5", "-", "f", "l", "a", "s", "h">>
ProName == <<"G", "e", "m", "i", "n", "i", "-", "P", "r", "o">>
Pro15Name == <<"g", "e", "m", "i", "n", "i", "-", "1", ".", "5", "-", "p", "r", "o">>
UltraName == <<"g", "e", "m", "i", "n", "i", "-", "u", "l", "t", "r", "a">>
EmbeddingName == <<"e", "m", "b", "e", "d", "d", "i", "n", "g">>

\* ['gemini-1.5-flash', 'gemini-pro', 'gemini-1.5-pro']
PreferredModels == <<FlashName, StrLower(ProName), Pro15Name>>

ImportError == [kind |-> "ImportError", message |-> "google-generativeai package not found"]
ApiKeyRequired == [kind |-> "ValueError", message |-> "Gemini API key required"]
NoModels == [kind |-> "ValueError", message |-> "No available Gemini models found"]
PromptNotFound == [kind |-> "FileNotFoundError", message |-> "Prompt template not found"]
\* what the client library raises when a request fails
ApiError(call_name) == [kind |-> "Exception", message |-> call_name]

\* load_prompt_template
load_prompt_template(env) ==
    IF ~env.prompt_exists THEN Raise(PromptNotFound) ELSE Return("prompt.txt")

\* the names of the models that support generateContent, in listing order
AvailableModels(models) ==
    LET usable == SelectSeq(models, LAMBDA m : GenerateContent \in m.supported_generation_methods)
    IN  [i \in 1..Len(usable) |-> usable[i].name]

\* the first available model whose lower-cased name contains `preferred`;
\* <<>> when there is none
FirstMatching(available, preferred) ==
    LET hits == SelectSeq(available, LAMBDA m : Contains(StrLower(m), preferred))
    IN  IF hits = <<>> THEN <<>> ELSE hits[1]

\* the model name the two loops and the fallback select
RECURSIVE SelectModel(_, _)
SelectModel(available, preferences) ==
    IF preferences = <<>> THEN available[1]
    ELSE IF FirstMatching(available, Head(preferences)) # <<>>
         THEN FirstMatching(available, Head(preferences))
    ELSE SelectModel(available, Tail(preferences))

\* a variant that passes the requested temperature on
ClampTemperature_Off(temperature) == temperature

\* if temperature > 0.3: temperature = 0.3
ClampTemperature(temperature) ==
    IF QLt(Q(3, 10), temperature) THEN Q(3, 10) ELSE temperature

\* a variant that repeats a failed generation call once
GenerateSummary_Retrying(agent_outputs, model_name, temperature, env) ==
    LET request == [model |-> model_name, temperature |-> temperature, top_p |-> Q(95, 100),
                    top_k |-> 40, max_output_tokens |-> 1024]
    IN  IF env.generate.ok
        THEN [ret |-> Return([summary |-> StrStrip(env.generate.value),
                              model |-> FlashName,
                              temperature |-> temperature,
                              num_agents_summarized |-> Len(agent_outputs),
                              status |-> "success"]),
              generated |-> <<request>>]
        ELSE [ret |-> Return([summary |-> None,
                              error |-> env.generate.error.message,
                              model |-> FlashName,
                              temperature |-> temperature,
                              num_agents_summarized |-> Len(agent_outputs),
                              status |-> "error"]),
              generated |-> <<request, request>>]

\* the generation call: config, generate_content, response.text.strip(),
\* all inside the try block of summarize_with_gemini
GenerateSummary(agent_outputs, model_name, temperature, env) ==
    LET request == [model |-> model_name, temperature |-> temperature, top_p |-> Q(95, 100),
                    top_k |-> 40, max_output_tokens |-> 1024]
    IN  IF env.generate.ok
        THEN [ret |-> Return([summary |-> StrStrip(env.generate.value),
                              model |-> FlashName,
                              temperature |-> temperature,
                              num_agents_summarized |-> Len(agent_outputs),
                              status |-> "success"]),
              generated |-> <<request>>]
        ELSE [ret |-> Return([summary |-> None,
                              error |-> env.generate.error.message,
                              model |-> FlashName,
                              temperature |-> temperature,
                              num_agents_summarized |-> Len(agent_outputs),
                              status |-> "error"]),
              generated |-> <<request>>]

summarize_with_gemini(agent_outputs, api_key, temperature, env) ==
    LET key == IF api_key = None THEN env.GEMINI_API_KEY ELSE api_key
        available == AvailableModels(env.list_models.value)
        failed(e) == [ret |-> Raise(e), generated |-> <<>>]
    IN  IF ~env.package_installed THEN failed(ImportError)
        ELSE IF key = None \/ key = Str(<<>>) THEN failed(ApiKeyRequired)
        ELSE IF ~env.list_models.ok THEN failed(env.list_models.error)
        ELSE IF available = <<>> THEN failed(NoModels)
        ELSE IF ~load_prompt_template(env).ok THEN failed(load_prompt_template(env).error)
        ELSE GenerateSummary(agent_outputs, SelectModel(available, PreferredModels),
                             ClampTemperature(temperature), env)

summarize_agent_results(agent_outputs, api_key, env) ==
    summarize_with_gemini(agent_outputs, api_key, Q(3, 10), env)

---------------------------------------------------------------------------
(* ui/app.py and ui/components.py: one run of the dashboard script on an   *)
(* uploaded table.  What the run leaves on the page is the record           *)
(* [rendered, errors, warnings, ...]: the headers of the result sections    *)
(* shown, in order, and the st.error and st.warning messages.               *)

\* the fields <<agent, field>> of results["agents"][agent]["results"] that a
\* result section reads with a subscript
SectionReads(section) ==
    CASE section = "dashboard" ->
            {<<"brand", "top_brands">>, <<"pricing", "price_statistics">>,
             <<"gap", "identified_gaps_count">>, <<"brand", "total_unique_brands">>,
             <<"feature", "total_unique_features">>}
      [] section = "brand" -> {<<"brand", "top_brands">>}
      [] section = "pricing" ->
            {<<"pricing", "price_statistics">>, <<"pricing", "optimal_price_range">>}
      [] section = "feature" -> {<<"feature", "top_features">>}
      [] section = "gap" ->
            {<<"gap", "top_gaps">>, <<"gap", "total_combinations">>,
             <<"gap", "identified_gaps_count">>}

\* the lists a section makes a frame of and selects columns from: the frame
\* of an empty list has no columns
SectionFrames(section) ==
    CASE section = "brand" -> {<<"brand", "top_brands">>}
      [] section = "feature" -> {<<"feature", "top_features">>}
      [] OTHER -> {}

\* whether the section raises KeyError on the bundle
SectionRaises(section, results) ==
    \/ \E r \in SectionReads(section) : r[2] \notin DOMAIN results.agents[r[1]].results
    \/ \E r \in SectionFrames(section) :
          /\ r[2] \in DOMAIN results.agents[r[1]].results
          /\ results.agents[r[1]].results[r[2]] = <<>>

\* the page of a run before anything is shown
BlankPage ==
    [rendered |-> <<>>, errors |-> <<>>, warnings |-> <<>>, analysed |-> FALSE,
     stored |-> FALSE, read_none |-> FALSE, raised |-> FALSE, llm_summary |-> None,
     cleaned_up |-> FALSE]

\* the handler of the try block around the whole run: st.error and the
\* removal of the temporary file
OuterExcept(shown) ==
    [shown EXCEPT !.errors = Append(@, "Error"), !.raised = TRUE, !.cleaned_up = TRUE]

\* the result sections in order, each showing its header and then reading
\* results, until one raises
RECURSIVE RenderSections(_, _, _)
RenderSections(sections, results, shown) ==
    IF sections = <<>> THEN shown
    ELSE LET titled == [shown EXCEPT !.rendered = Append(@, Head(sections))]
         IN  IF results = None THEN [titled EXCEPT !.read_none = TRUE, !.raised = TRUE]
             ELSE IF SectionRaises(Head(sections), results) THEN [titled EXCEPT !.raised = TRUE]
             ELSE RenderSections(Tail(sections), results, titled)

\* the AI summary section and what follows it
RenderSummary(results, enable_llm, env, shown) ==
    LET titled == [shown EXCEPT !.rendered = Append(@, "summary")]
        agent_outputs == <<results.agents.brand, results.agents.pricing,
                           results.agents.feature, results.agents.gap>>
        outcome == summarize_agent_results(agent_outputs, None, env)
    IN  IF enable_llm
        THEN IF ~outcome.ret.ok
             THEN [titled EXCEPT !.errors = Append(@, "Error generating summary")]
             ELSE IF outcome.ret.value.status = "success"
             THEN [titled EXCEPT !.llm_summary = outcome.ret.value]
             ELSE [titled EXCEPT !.warnings = Append(@, "Summary generation failed")]
        ELSE [titled EXCEPT !.stored = TRUE,
                            !.rendered = Append(@, "export"),
                            !.cleaned_up = TRUE]

\* run_all_agents inside its try block, with what the sidebar gives on a
\* table that has the columns brand, price and feature (every uploaded table
\* of the model has them): the standard column mapping and the values the
\* sliders start with, 10 brands, 15 features and the threshold -0.5
RunAnalysis(cleaned_df) ==
    run_all_agents(cleaned_df, "brand", "price", "feature", 10, 15, Q(-1, 2))

\* the run after Run Analysis was clicked and run_all_agents has returned or
\* raised `run`, to the end of the script
RenderPage(run, enable_llm, env) ==
    LET results == IF run.ok THEN run.value ELSE None
        started == IF run.ok THEN [BlankPage EXCEPT !.analysed = TRUE, !.stored = TRUE]
                   ELSE [BlankPage EXCEPT !.errors = <<"Error during analysis">>]
        sections == IF run.ok THEN <<"dashboard", "brand", "pricing", "feature", "gap">>
                    ELSE <<"gap">>
        shown == RenderSections(sections, results, started)
    IN  IF shown.raised THEN OuterExcept(shown)
        ELSE RenderSummary(results, enable_llm, env, shown)

---------------------------------------------------------------------------
(* The state machine: a table is built row by row and analysed.  `call` is *)
(* the call whose outcome the caller holds: its function, arguments and    *)
(* outcome; the caller makes its next call once it has let go of that      *)
(* outcome (the calls are synchronous and single-threaded).                *)
(* `timestamps` holds the "timestamp" fields of what the call returned, in *)
(* the order they were read from the clock: one reading for an envelope,   *)
(* five for a bundle (brand, pricing, feature, gap, then the bundle's      *)
(* own).  A reading is a number of clock ticks since the first reading of  *)
(* the call.  `summary` is the outcome of the summarization of the bundle  *)
(* the caller holds.                                                       *)

NoCall == [fn |-> "none", args |-> <<>>, ret |-> None]

Called(fn, args, ret) == [fn |-> fn, args |-> args, ret |-> ret]

EmptyTable == [columns |-> TableColumns, rows |-> <<>>]

\* a table of six rows in which brand X has 3 rows, feature a has 4 and the
\* pair (X, a) is seen once: expected 3 * 4 / 6 = 2, gap score exactly -0.5
BoundaryTable ==
    LET xa == MkRow(Str(<<"X">>), Num(100), Str(<<"a">>), Num(1), Str(<<"r">>))
        xb == MkRow(Str(<<"X">>), Num(200), Str(<<"b">>), Num(0), Str(<<"r">>))
        ya == MkRow(Str(<<"Y">>), Num(300), Str(<<"a">>), Num(0), Str(<<"g">>))
    IN  [columns |-> TableColumns, rows |-> <<xa, xb, xb, ya, ya, ya>>]

\* a table of the prices 400, 100, 300, 200
PriceExampleTable ==
    [columns |-> TableColumns,
     rows |-> <<MkRow(Str(<<"X">>), Num(400), NA, Num(1), Str(<<"0">>)),
                MkRow(Str(<<"X">>), Num(100), Str(<<"a">>), Num(1), Str(<<"r">>)),
                MkRow(Str(<<"Y">>), Num(300), Str(<<"a">>), Num(0), Str(<<"g">>)),
                MkRow(Str(<<"X">>), Num(200), Str(<<"b">>), Num(0), Str(<<"r">>))>>]

\* a table of six rows in which brand X has 3 rows, feature a has 3 and the
\* pair (X, a) is seen once: expected 3 * 3 / 6 = 1.5, gap score -1/3
ThirdsTable ==
    LET xa == MkRow(Str(<<"X">>), Num(100), Str(<<"a">>), Num(1), Str(<<"r">>))
        xb == MkRow(Str(<<"X">>), Num(200), Str(<<"b">>), Num(0), Str(<<"r">>))
        ya == MkRow(Str(<<"Y">>), Num(300), Str(<<"a">>), Num(0), Str(<<"g">>))
        yb == MkRow(Str(<<"Y">>), Num(400), Str(<<"b">>), Num(1), Str(<<"g">>))
    IN  [columns |-> TableColumns, rows |-> <<xa, xb, xb, ya, ya, yb>>]

\* a table with two columns named after features, the capitalised one first
FeaturesFirstTable ==
    [columns |-> <<"brand", "Features", "feature">>,
     rows |-> <<[brand |-> Str(<<"X">>), Features |-> Str(<<"z">>), feature |-> Str(<<"a">>)],
                [brand |-> Str(<<"Y">>), Features |-> Str(<<"z", "|", "y">>), feature |-> NA]>>]

\* a table without a column named after features
NoFeatureTable ==
    [columns |-> <<"brand", "price", "wifi">>,
     rows |-> <<[brand |-> Str(<<"X">>), price |-> Num(100), wifi |-> Num(1)],
                [brand |-> Str(<<"Y">>), price |-> Num(200), wifi |-> Num(0)]>>]

\* top_n_brands: int = 10 and top_n_features: int = 15 of run_all_agents
TopNBrandsDefault == 10
TopNFeaturesDefault == 15

\* the arguments the calls are made with
BrandColumnArgs == {"brand", "nonexistent"}
PriceColumnArgs == {"price", "nonexistent"}
FeatureColumnArgs == {"feature", "nonexistent"}
FeatureColumnsArgs == {<<"wifi", "color">>, <<"color", "nonexistent">>}
TopNArgs == {1, 2}
ThresholdArgs == {Q(-1, 2), Q(-33333, 100000), QInt(0), QInt(1)}

\* n successive readings of datetime.now(): the clock does not run backwards
ClockReadings(n) ==
    {r \in [1..n -> 0..MaxClock] : r[1] = 0 /\ \A i \in 1..(n - 1) : r[i] <= r[i + 1]}

NoSummary ==
    [fn |-> "none", api_key |-> None, temperature |-> <<>>, env |-> None, ret |-> None,
     generated |-> <<>>]

\* an environment in which the summarization succeeds
GoodEnv ==
    [package_installed |-> TRUE,
     GEMINI_API_KEY |-> Str(<<"k">>),
     list_models |-> Return(<<Model(EmbeddingName, {EmbedContent}),
                              Model(Pro15Name, {GenerateContent}),
                              Model(FlashName, {GenerateContent, EmbedContent})>>),
     prompt_exists |-> TRUE,
     generate |-> Return(<<" ", "o", "k">>)]

\* the environments the summarizer is run in
SummarizerEnvs ==
    <<GoodEnv,
     [GoodEnv EXCEPT !.package_installed = FALSE],
     [GoodEnv EXCEPT !.GEMINI_API_KEY = None],
     [GoodEnv EXCEPT !.GEMINI_API_KEY = Str(<<>>)],
     [GoodEnv EXCEPT !.list_models = Raise(ApiError("list_models"))],
     [GoodEnv EXCEPT !.list_models = Return(<<>>)],
     [GoodEnv EXCEPT !.list_models = Return(<<Model(EmbeddingName, {EmbedContent})>>)],
     [GoodEnv EXCEPT !.list_models = Return(<<Model(UltraName, {GenerateContent}),
                                              Model(ProName, {GenerateContent})>>)],
     [GoodEnv EXCEPT !.list_models = Return(<<Model(UltraName, {GenerateContent})>>)],
     [GoodEnv EXCEPT !.prompt_exists = FALSE],
     [GoodEnv EXCEPT !.generate = Raise(ApiError("generate_content"))]>>

ApiKeyArgs == {None, Str(<<"k">>)}

\* temperatures below, at and above 0.3
TemperatureArgs == {QInt(0), Q(1, 10), Q(3, 10), Q(1, 2), QInt(1)}

\* total_records of calculate_expected_frequency
TotalRecordsArgs == 0..MaxRows

\* a table without a numeric price
NoPriceTable ==
    [columns |-> TableColumns,
     rows |-> <<MkRow(Str(<<"Y">>), Str(<<"x">>), Str(<<"a">>), Num(1), Str(<<"g">>)),
                MkRow(Str(<<"X">>), Str(<<"x">>), Str(<<"b">>), Num(0), Str(<<"r">>))>>]

\* a table whose only row has no feature
MissingFeatureTable ==
    [columns |-> TableColumns,
     rows |-> <<MkRow(Str(<<"X">>), Num(400), NA, Num(1), Str(<<"0">>))>>]

\* the sessions of the server process and the files they upload
Sessions == {1, 2}
Uploads == <<BoundaryTable, NoPriceTable, MissingFeatureTable>>

\* the environments of the dashboard: the summarization succeeds, raises
\* (no API key) or returns an error envelope (the generation call fails)
DashboardEnvs == {1, 3, 11}

\* the server process: the content of temp_upload_<pid>.csv and the entry
\* of the cache of cached_read_csv for that path
NoServer == [file |-> None, cache |-> None]

\* a session between two runs of the script
Idle == [pc |-> "idle", upload |-> 0, df |-> None, run |-> None]

\* nothing has been shown yet
NoPage == [upload |-> 0, df |-> None, enable_llm |-> FALSE, shown |-> None]

RequiredColumnsArgs == {<<>>, <<"brand">>, <<"brand", "nonexistent">>}
StrategyArgs == {"drop_rows", "drop_columns", "keep", "fill"}

Init ==
    /\ df \in {EmptyTable, BoundaryTable, ThirdsTable, PriceExampleTable, FeaturesFirstTable,
               NoFeatureTable}
    /\ call = NoCall
    /\ timestamps = <<>>
    /\ summary = NoSummary
    /\ server = NoServer
    /\ session = [s \in Sessions |-> Idle]
    /\ page = NoPage

AddRow(r) ==
    /\ call = NoCall
    /\ df.columns = TableColumns
    /\ NRows(df) < MaxRows
    /\ df' = [df EXCEPT !.rows = Append(@, r)]
    /\ UNCHANGED <<call, timestamps, summary, dashboard>>

AnalyzeBrands(brand_column, top_n) ==
    /\ call = NoCall
    /\ call' = Called("analyze_brands",
                      [brand_column |-> brand_column, top_n |-> top_n],
                      analyze_brands(df, brand_column, top_n))
    /\ timestamps' = IF call'.ret.ok THEN <<0>> ELSE <<>>
    /\ UNCHANGED <<df, summary, dashboard>>

AnalyzePricing(price_column) ==
    /\ call = NoCall
    /\ call' = Called("analyze_pricing",
                      [price_column |-> price_column],
                      analyze_pricing(df, price_column))
    /\ timestamps' = IF call'.ret.ok THEN <<0>> ELSE <<>>
    /\ UNCHANGED <<df, summary, dashboard>>

AnalyzeFeatures(feature_column, feature_columns, top_n) ==
    /\ call = NoCall
    /\ call' = Called("analyze_features",
                      [feature_column |-> feature_column,
                       feature_columns |-> feature_columns, top_n |-> top_n],
                      analyze_features(df, feature_column, feature_columns, top_n))
    /\ timestamps' = IF call'.ret.ok THEN <<0>> ELSE <<>>
    /\ UNCHANGED <<df, summary, dashboard>>

\* a variant in which the gap analysis drops the rows without a valid pair
\* from the table it was given
AnalyzeGaps_Dropping(brand_column, feature_column, gap_threshold, top_n) ==
    /\ call = NoCall
    /\ call' = Called("analyze_gaps",
                      [brand_column |-> brand_column, feature_column |-> feature_column,
                       gap_threshold |-> gap_threshold, top_n |-> top_n],
                      analyze_gaps(df, brand_column, feature_column, gap_threshold, top_n))
    /\ timestamps' = IF call'.ret.ok THEN <<0>> ELSE <<>>
    /\ df' = IF call'.ret.ok
             THEN [df EXCEPT !.rows = SelectSeq(@, LAMBDA row : NotNa(row[brand_column])
                                                             /\ NotNa(row[feature_column]))]
             ELSE df
    /\ UNCHANGED <<summary, dashboard>>

AnalyzeGaps(brand_column, feature_column, gap_threshold, top_n) ==
    /\ call = NoCall
    /\ call' = Called("analyze_gaps",
                      [brand_column |-> brand_column, feature_column |-> feature_column,
                       gap_threshold |-> gap_threshold, top_n |-> top_n],
                      analyze_gaps(df, brand_column, feature_column, gap_threshold, top_n))
    /\ timestamps' = IF call'.ret.ok THEN <<0>> ELSE <<>>
    /\ UNCHANGED <<df, summary, dashboard>>

RunAllAgents(brand_column, price_column, feature_column, gap_threshold, readings) ==
    /\ call = NoCall
    /\ call' = Called("run_all_agents",
                      [brand_column |-> brand_column, price_column |-> price_column,
                       feature_column |-> feature_column, top_n_brands |-> TopNBrandsDefault,
                       top_n_features |-> TopNFeaturesDefault, gap_threshold |-> gap_threshold],
                      run_all_agents(df, brand_column, price_column, feature_column,
                                     TopNBrandsDefault, TopNFeaturesDefault, gap_threshold))
    /\ timestamps' = IF call'.ret.ok THEN readings ELSE <<>>
    /\ UNCHANGED <<df, summary, dashboard>>

\* calculate_expected_frequency on the combinations of the table
CalculateExpectedFrequency(brand_column, feature_column, total_records) ==
    /\ call = NoCall
    /\ LET found == get_brand_feature_combinations(df, brand_column, feature_column)
       IN  /\ found.ok
           /\ call' = Called("calculate_expected_frequency",
                             [combination_counts |-> found.value,
                              total_records |-> total_records],
                             Return(calculate_expected_frequency(found.value, total_records)))
    /\ UNCHANGED <<df, timestamps, summary, dashboard>>

ValidateAndClean(required_columns, cleaning_strategy, remove_dupes) ==
    /\ call = NoCall
    /\ call' = Called("validate_and_clean",
                      [required_columns |-> required_columns,
                       cleaning_strategy |-> cleaning_strategy,
                       remove_dupes |-> remove_dupes],
                      validate_and_clean(df, required_columns, cleaning_strategy,
                                         remove_dupes))
    /\ UNCHANGED <<df, timestamps, summary, dashboard>>

\* the caller summarizes the four results of the bundle it holds
Summarize(api_key, env) ==
    /\ call.fn = "run_all_agents"
    /\ call.ret.ok
    /\ summary = NoSummary
    /\ LET agents == call.ret.value.agents
           agent_outputs == <<agents.brand, agents.pricing, agents.feature, agents.gap>>
           outcome == summarize_agent_results(agent_outputs, api_key, env)
       IN  summary' = [fn |-> "summarize_agent_results", api_key |-> api_key,
                       temperature |-> Q(3, 10), env |-> env,
                       ret |-> outcome.ret, generated |-> outcome.generated]
    /\ UNCHANGED <<df, call, timestamps, dashboard>>

\* the caller summarizes the four results at a temperature of its own
SummarizeWithGemini(api_key, temperature, env) ==
    /\ call.fn = "run_all_agents"
    /\ call.ret.ok
    /\ summary = NoSummary
    /\ LET agents == call.ret.value.agents
           agent_outputs == <<agents.brand, agents.pricing, agents.feature, agents.gap>>
           outcome == summarize_with_gemini(agent_outputs, api_key, temperature, env)
       IN  summary' = [fn |-> "summarize_with_gemini", api_key |-> api_key,
                       temperature |-> temperature, env |-> env,
                       ret |-> outcome.ret, generated |-> outcome.generated]
    /\ UNCHANGED <<df, call, timestamps, dashboard>>

\* the caller is done with the outcome of its call
Release ==
    /\ call # NoCall
    /\ call' = NoCall
    /\ timestamps' = <<>>
    /\ summary' = NoSummary
    /\ UNCHANGED <<df, dashboard>>

Next ==
    \/ \E r \in RowPool : AddRow(r)
    \/ \E b \in BrandColumnArgs, n \in TopNArgs : AnalyzeBrands(b, n)
    \/ \E p \in PriceColumnArgs : AnalyzePricing(p)
    \/ \E f \in FeatureColumnArgs \cup {"", "price"}, fs \in FeatureColumnsArgs \cup {<<>>},
          n \in TopNArgs : AnalyzeFeatures(f, fs, n)
    \/ \E b \in BrandColumnArgs, f \in FeatureColumnArgs, t \in ThresholdArgs, n \in TopNArgs :
          AnalyzeGaps(b, f, t, n)
    \/ \E b \in BrandColumnArgs, p \in PriceColumnArgs, f \in FeatureColumnArgs,
          t \in ThresholdArgs, r \in ClockReadings(5) : RunAllAgents(b, p, f, t, r)
    \/ \E b \in BrandColumnArgs, f \in FeatureColumnArgs,
          n \in TotalRecordsArgs \cup {NRows(df)} : CalculateExpectedFrequency(b, f, n)
    \/ \E rc \in RequiredColumnsArgs, s \in StrategyArgs, rd \in BOOLEAN :
          ValidateAndClean(rc, s, rd)
    \/ Release

Spec == Init /\ [][Next]_vars

\* a run of the script starts in session s with the file u in the uploader:
\* the file is written to the temporary path of the process
Rerun(s, u) ==
    /\ session[s].pc = "idle"
    /\ session' = [session EXCEPT ![s] = [Idle EXCEPT !.pc = "written", !.upload = u]]
    /\ server' = [server EXCEPT !.file = Uploads[u]]
    /\ UNCHANGED <<df, call, timestamps, summary, page>>

\* cached_read_csv(str(temp_path)): the cache is keyed by the path; on a miss
\* read_csv_file reads the file as it is now
CachedReadCsv(s) ==
    /\ session[s].pc = "written"
    /\ IF server.cache # None
       THEN /\ session' = [session EXCEPT ![s].pc = "loaded", ![s].df = server.cache]
            /\ UNCHANGED <<server, page>>
       ELSE IF server.file # None
       THEN /\ session' = [session EXCEPT ![s].pc = "loaded", ![s].df = server.file]
            /\ server' = [server EXCEPT !.cache = server.file]
            /\ UNCHANGED page
       ELSE /\ session' = [session EXCEPT ![s] = Idle]
            /\ page' = [NoPage EXCEPT !.upload = session[s].upload,
                                      !.shown = OuterExcept(BlankPage)]
            /\ UNCHANGED server
    /\ UNCHANGED <<df, call, timestamps, summary>>

\* the table is read through the cache again and cleaned with the strategy
\* of the selectbox "Data Cleaning Strategy"; when Run Analysis is clicked it
\* is analysed, else the run ends
Analyse(s, clicked, cleaning_strategy) ==
    /\ session[s].pc = "loaded"
    /\ LET cleaned == validate_and_clean(server.cache, <<>>, cleaning_strategy, TRUE)
           ended(shown) == [upload |-> session[s].upload, df |-> server.cache,
                            enable_llm |-> FALSE, shown |-> shown]
       IN  IF ~cleaned.ok
           THEN /\ page' = ended(OuterExcept(BlankPage))
                /\ server' = [server EXCEPT !.file = None]
                /\ session' = [session EXCEPT ![s] = Idle]
           ELSE IF ~clicked
           THEN /\ page' = ended(BlankPage)
                /\ session' = [session EXCEPT ![s] = Idle]
                /\ UNCHANGED server
           ELSE /\ session' = [session EXCEPT ![s].pc = "analysed", ![s].df = server.cache,
                                              ![s].run = RunAnalysis(cleaned.value)]
                /\ UNCHANGED <<server, page>>
    /\ UNCHANGED <<df, call, timestamps, summary>>

\* the result sections, the AI summary and the export are shown
Render(s, enable_llm, env) ==
    /\ session[s].pc = "analysed"
    /\ LET shown == RenderPage(session[s].run, enable_llm, SummarizerEnvs[env])
       IN  /\ page' = [upload |-> session[s].upload, df |-> session[s].df,
                       enable_llm |-> enable_llm, shown |-> shown]
           /\ server' = IF shown.cleaned_up THEN [server EXCEPT !.file = None] ELSE server
    /\ session' = [session EXCEPT ![s] = Idle]
    /\ UNCHANGED <<df, call, timestamps, summary>>

InitDashboard ==
    /\ df = EmptyTable
    /\ call = NoCall
    /\ timestamps = <<>>
    /\ summary = NoSummary
    /\ server = NoServer
    /\ session = [s \in Sessions |-> Idle]
    /\ page = NoPage

NextDashboard ==
    \/ \E s \in Sessions, u \in DOMAIN Uploads : Rerun(s, u)
    \/ \E s \in Sessions : CachedReadCsv(s)
    \/ \E s \in Sessions, clicked \in BOOLEAN, cs \in {"drop_rows", "drop_columns", "keep"} : Analyse(s, clicked, cs)
    \/ \E s \in Sessions, enable_llm \in BOOLEAN, env \in DashboardEnvs : Render(s, enable_llm, env)

SpecDashboard == InitDashboard /\ [][NextDashboard]_vars

\* The summarization stage of the dashboard: the bundle of a table is
\* computed and summarized in each environment.
InitSummarizer ==
    /\ df \in {EmptyTable, BoundaryTable, PriceExampleTable}
    /\ call = NoCall
    /\ timestamps = <<>>
    /\ summary = NoSummary
    /\ server = NoServer
    /\ session = [s \in Sessions |-> Idle]
    /\ page = NoPage

NextSummarizer ==
    \/ \E b \in BrandColumnArgs, p \in PriceColumnArgs, f \in FeatureColumnArgs,
          t \in ThresholdArgs, r \in ClockReadings(5) : RunAllAgents(b, p, f, t, r)
    \/ \E k \in ApiKeyArgs, i \in DOMAIN SummarizerEnvs : Summarize(k, SummarizerEnvs[i])
    \/ \E k \in ApiKeyArgs, t \in TemperatureArgs, i \in DOMAIN SummarizerEnvs :
          SummarizeWithGemini(k, t, SummarizerEnvs[i])
    \/ Release

SpecSummarizer == InitSummarizer /\ [][NextSummarizer]_vars

---------------------------------------------------------------------------
(* Properties of the gap analysis *)

\* the caller holds the envelope of a gap analysis that found combinations
GapAnalysed ==
    /\ call.fn = "analyze_gaps"
    /\ call.ret.ok
    /\ call.ret.value.results.total_combinations > 0

\* the frame analyze_gaps scored: every observed combination of the table
\* with its expected count and gap score
GapFrame ==
    calculate_expected_frequency(
        get_brand_feature_combinations(df, call.args.brand_column,
                                       call.args.feature_column).value,
        NRows(df))

\* the values of min_observations identify_gaps is called with below
MinObservationsArgs == {1, 2}

\* whether the envelope lists the combination c among its top gaps
Listed(c) ==
    \E i \in DOMAIN call.ret.value.results.top_gaps :
        LET g == call.ret.value.results.top_gaps[i]
        IN  g.brand = c.brand /\ g.feature = c.feature

\* the rows of the table with both a brand and a feature
ValidRowIndexes ==
    {i \in 1..NRows(df) : /\ NotNa(df.rows[i][call.args.brand_column])
                          /\ NotNa(df.rows[i][call.args.feature_column])}

\* C1: a combination whose gap score equals the threshold exactly, and which
\* was observed at least min_observations times, is among the gaps
\* identify_gaps returns; analyze_gaps counts it in identified_gaps_count
\* and lists it when the list is not cut short by top_n.
C1_ThresholdInclusive ==
    GapAnalysed =>
        LET threshold == call.args.gap_threshold
            results == call.ret.value.results
            atOrBelow == {i \in DOMAIN GapFrame :
                            /\ \/ QLt(GapFrame[i].gap_score, threshold)
                               \/ GapFrame[i].gap_score = threshold
                            /\ GapFrame[i].count >= 1}
        IN  /\ \A m \in MinObservationsArgs : \A i \in DOMAIN GapFrame :
                  (GapFrame[i].gap_score = threshold /\ GapFrame[i].count >= m)
                      => GapFrame[i] \in Range(identify_gaps(GapFrame, threshold, m))
            /\ results.identified_gaps_count = Cardinality(atOrBelow)
            /\ results.identified_gaps_count <= call.args.top_n
                  => \A i \in DOMAIN GapFrame :
                        GapFrame[i].gap_score = threshold => Listed(GapFrame[i])

\* a gap analysis lists a combination whose score is exactly the threshold
C1_Witness ==
    /\ GapAnalysed
    /\ \E i \in DOMAIN GapFrame :
          /\ GapFrame[i].gap_score = call.args.gap_threshold
          /\ Listed(GapFrame[i])
    /\ call.args.gap_threshold = Q(-1, 2)

\* C2: for a combination with expected > 0 the gap score is
\* (observed - expected) / expected: negative exactly when observed is below
\* expected, positive exactly when above, zero exactly when equal.
C2_GapScoreSign ==
    GapAnalysed =>
        \A i \in DOMAIN GapFrame :
            LET c == GapFrame[i]
                observed == QInt(c.count)
                expected == c.expected_count
            IN  QLt(QInt(0), expected) =>
                  /\ QMul(c.gap_score, expected) = QSub(observed, expected)
                  /\ QLt(c.gap_score, QInt(0)) <=> QLt(observed, expected)
                  /\ QLt(QInt(0), c.gap_score) <=> QLt(expected, observed)
                  /\ c.gap_score = QInt(0) <=> observed = expected

\* one analysed table holds an under-represented and an over-represented
\* combination, both with expected > 0
C2_Witness ==
    /\ GapAnalysed
    /\ \E i, j \in DOMAIN GapFrame :
          /\ QLt(QInt(0), GapFrame[i].expected_count)
          /\ QLt(QInt(GapFrame[i].count), GapFrame[i].expected_count)
          /\ QLt(GapFrame[i].gap_score, QInt(0))
          /\ QLt(GapFrame[j].expected_count, QInt(GapFrame[j].count))
          /\ QLt(QInt(0), GapFrame[j].gap_score)

\* the rows with a valid pair whose brand is b / whose feature is f
RowsOfBrand(b) == {i \in ValidRowIndexes : df.rows[i][call.args.brand_column] = b}
RowsOfFeature(f) == {i \in ValidRowIndexes : df.rows[i][call.args.feature_column] = f}

\* C3: the expected count of a combination (b, f) is
\* brand_total(b) * feature_total(f) divided by the row count of the whole
\* table, rows with a missing brand or feature included; the totals count
\* the rows with a valid pair only.
C3_ExpectedOverAllRows ==
    GapAnalysed =>
        /\ \A i \in DOMAIN GapFrame :
              GapFrame[i].expected_count =
                  Q(Cardinality(RowsOfBrand(GapFrame[i].brand))
                      * Cardinality(RowsOfFeature(GapFrame[i].feature)),
                    NRows(df))
        /\ \A k \in DOMAIN call.ret.value.results.top_gaps :
              LET g == call.ret.value.results.top_gaps[k]
              IN  g.expected_count =
                      Round2(Q(Cardinality(RowsOfBrand(g.brand))
                                 * Cardinality(RowsOfFeature(g.feature)),
                               NRows(df)))

\* a gap is listed for a table in which some row has no valid pair
C3_Witness ==
    /\ GapAnalysed
    /\ Cardinality(ValidRowIndexes) < NRows(df)
    /\ call.ret.value.results.top_gaps # <<>>

\* C4: the gaps flagged are exactly the combinations with
\* gap_score <= threshold and observed count >= min_observations, for the
\* threshold and for the min_observations the caller of the analysis has
\* chosen; identified_gaps_count is the size of that set.  analyze_gaps and
\* run_all_agents take no min_observations, so the outcome of a call is the
\* same whichever value the caller has chosen.
C4_ConfiguredSelection ==
    GapAnalysed =>
        \A m \in MinObservationsArgs :
            call.ret.value.results.identified_gaps_count =
                Cardinality({i \in DOMAIN GapFrame :
                                /\ QLeq(GapFrame[i].gap_score, call.args.gap_threshold)
                                /\ GapFrame[i].count >= m})

---------------------------------------------------------------------------
(* Properties of the envelopes *)

\* the caller holds the envelope returned by the aggregator fn
Returned(fn) == call.fn = fn /\ call.ret.ok

\* 1.0 in the unit of the rounded confidences (round(x, 4))
One4 == 10000

\* every confidence of an envelope: the overall one and those of its entries
EntryConfidences(env) ==
    IF env.agent_name = "brand_agent"
    THEN {env.results.top_brands[i].confidence : i \in DOMAIN env.results.top_brands}
    ELSE IF env.agent_name = "feature_agent"
    THEN {env.results.top_features[i].confidence : i \in DOMAIN env.results.top_features}
    ELSE {}

Confidences(env) == {env.confidence} \cup EntryConfidences(env)

\* the envelopes the caller holds: the one returned, or the four of a bundle
EnvelopesHeld ==
    IF ~call.ret.ok THEN {}
    ELSE IF call.fn = "run_all_agents"
    THEN {call.ret.value.agents[a] : a \in DOMAIN call.ret.value.agents}
    ELSE IF call.fn \in {"analyze_brands", "analyze_pricing", "analyze_features",
                         "analyze_gaps"}
    THEN {call.ret.value}
    ELSE {}

\* C5: every per-entry confidence and every overall confidence of every
\* aggregator lies in [0, 1], also for a feature whose token occurs more
\* than once in a row.
C5_ConfidenceInUnitInterval ==
    call.fn # "none" =>
        \A env \in EnvelopesHeld : \A c \in Confidences(env) : 0 <= c /\ c <= One4

\* the table d with its rows in the order p, a permutation of 1..NRows(d)
PermuteRows(d, p) == [d EXCEPT !.rows = [i \in 1..NRows(d) |-> d.rows[p[i]]]]

\* the outcome of the aggregator fn on the table d with the arguments args
Outcome(fn, args, d) ==
    CASE fn = "analyze_brands" -> analyze_brands(d, args.brand_column, args.top_n)
      [] fn = "analyze_pricing" -> analyze_pricing(d, args.price_column)
      [] fn = "analyze_features" ->
            analyze_features(d, args.feature_column, args.feature_columns, args.top_n)
      [] fn = "analyze_gaps" ->
            analyze_gaps(d, args.brand_column, args.feature_column,
                         args.gap_threshold, args.top_n)

Aggregators == {"analyze_brands", "analyze_pricing", "analyze_features", "analyze_gaps"}

\* C6: the outcome of every aggregator is the same for every order of the
\* rows of the table, the entries that make the top-N cut and their order
\* among equal counts or equal scores included.
C6_RowOrderIrrelevant ==
    call.fn \in Aggregators =>
        \A p \in Permutations(1..NRows(df)) :
            Outcome(call.fn, call.args, PermuteRows(df, p)) = call.ret

\* the full count structure a brand or feature envelope was cut from
CountsBehind ==
    IF call.fn = "analyze_brands" THEN count_brands(df, call.args.brand_column).value
    ELSE IF call.args.feature_column # ""
         THEN extract_features_from_column(df, call.args.feature_column).value
    ELSE IF call.args.feature_columns # <<>>
         THEN extract_features_from_multiple_columns(df, call.args.feature_columns)
    ELSE extract_features_from_column(df, AutoDetected(df)[1]).value

\* the entries of a brand or feature envelope as label and count
TopEntries ==
    IF call.fn = "analyze_brands"
    THEN [i \in DOMAIN call.ret.value.results.top_brands |->
            Entry(call.ret.value.results.top_brands[i].brand,
                  call.ret.value.results.top_brands[i].count)]
    ELSE [i \in DOMAIN call.ret.value.results.top_features |->
            Entry(call.ret.value.results.top_features[i].feature,
                  call.ret.value.results.top_features[i].count)]

Min(a, b) == IF a <= b THEN a ELSE b

\* top is the n best of all by count, in descending order of count
IsTopByCount(top, all, n) ==
    /\ Len(top) = Min(n, Len(all))
    /\ Range(top) \subseteq Range(all)
    /\ \A i, j \in DOMAIN top : i < j => top[i].count >= top[j].count
    /\ \A e \in Range(all) \ Range(top) : \A i \in DOMAIN top : top[i].count >= e.count

\* top is the n most negative of the flagged combinations, in ascending
\* order of gap score
IsTopByGap(top, flagged, n) ==
    /\ Len(top) = Min(n, Len(flagged))
    /\ \A i \in DOMAIN top : \E c \in Range(flagged) :
          /\ c.brand = top[i].brand /\ c.feature = top[i].feature
          /\ Round4(c.gap_score) = top[i].gap_score
    /\ \A i, j \in DOMAIN top : i < j => top[i].gap_score <= top[j].gap_score
    /\ \A c \in Range(flagged) :
          (\A i \in DOMAIN top : ~(c.brand = top[i].brand /\ c.feature = top[i].feature))
              => \A i \in DOMAIN top : top[i].gap_score <= Round4(c.gap_score)

\* C7: every top-N list is sorted by its ranking key and holds the N best
\* entries: top_brands and top_features (single-column and multi-column
\* mode) by count, descending; top_gaps by gap score, ascending.
C7_TopNSortedAndBest ==
    /\ (Returned("analyze_brands")
          \/ (Returned("analyze_features") /\ "top_features" \in DOMAIN call.ret.value.results
                /\ Len(CountsBehind) > 0))
          => IsTopByCount(TopEntries, CountsBehind, call.args.top_n)
    /\ GapAnalysed
          => IsTopByGap(call.ret.value.results.top_gaps,
                        identify_gaps(GapFrame, call.args.gap_threshold,
                                      AnalyzeGapsMinObservations),
                        call.args.top_n)

\* the number of tokens the values of a column hold
RECURSIVE TokenCount(_, _)
TokenCount(cells, dtype) ==
    IF cells = <<>> THEN 0
    ELSE (IF NotNa(Head(cells)) THEN Len(TokensOfValue(Head(cells), dtype)) ELSE 0)
         + TokenCount(Tail(cells), dtype)

\* the column a single-column feature extraction reads
FeatureSource ==
    IF call.args.feature_column # "" THEN call.args.feature_column ELSE AutoDetected(df)[1]

\* a feature analysis in single-column mode returned feature counts
FeaturesCounted ==
    /\ Returned("analyze_features")
    /\ call.args.feature_column # "" \/ call.args.feature_columns = <<>>
    /\ "top_features" \in DOMAIN call.ret.value.results
    /\ call.ret.value.results.top_features # <<>>

\* C8: the counts of a full count structure sum to the number of
\* contributing observations: brand counts to the rows with a brand,
\* feature counts (total_feature_mentions) to the tokens extracted, the gap
\* contingency counts to the rows with both brand and feature, which is the
\* numerator of the gap confidence.
C8_CountConservation ==
    /\ Returned("analyze_brands") =>
          SumCounts(count_brands(df, call.args.brand_column).value)
              = Cardinality({i \in 1..NRows(df) : NotNa(df.rows[i][call.args.brand_column])})
    /\ FeaturesCounted =>
          /\ call.ret.value.results.total_feature_mentions
                = TokenCount(Column(df, FeatureSource), ColumnDtype(df, FeatureSource))
          /\ SumCounts(CountsBehind) = call.ret.value.results.total_feature_mentions
    /\ GapAnalysed =>
          /\ SumCounts(GapFrame) = Cardinality(ValidRowIndexes)
          /\ call.ret.value.confidence = Round4(Q(Cardinality(ValidRowIndexes), NRows(df)))

\* a feature analysis counted a column in which one row holds several
\* tokens and another row holds none
C8_Witness ==
    /\ FeaturesCounted
    /\ call.ret.value.results.total_feature_mentions > NRows(df)
    /\ \E i \in 1..NRows(df) : ~NotNa(df.rows[i][FeatureSource])

\* the columns a call of an aggregator asks for
RequestedColumns ==
    CASE call.fn = "analyze_brands" -> {call.args.brand_column}
      [] call.fn = "analyze_pricing" -> {call.args.price_column}
      [] call.fn = "analyze_features" ->
            IF call.args.feature_column # "" THEN {call.args.feature_column}
            ELSE Range(call.args.feature_columns)
      [] call.fn = "analyze_gaps" -> {call.args.brand_column, call.args.feature_column}
      [] OTHER -> {}

AbsentRequested == {c \in RequestedColumns : ~HasColumn(df, c)}

\* C9: a requested column that is absent from the table makes the call fail
\* with an error naming an absent column; this holds for the brand, price,
\* single feature and gap columns and for every column of feature_columns.
C9_AbsentColumnSurfaced ==
    AbsentRequested # {} =>
        /\ ~call.ret.ok
        /\ call.ret.error.column \in AbsentRequested

\* C10: run_all_agents returns a bundle only when all four aggregators
\* succeed, and the bundle then holds exactly the brand, pricing, feature and
\* gap results; when one fails its error is all the caller gets.
C10_AllOrNothing ==
    call.fn = "run_all_agents" =>
        LET a == call.args
            brand == analyze_brands(df, a.brand_column, a.top_n_brands)
            pricing == analyze_pricing(df, a.price_column)
            feature == analyze_features(df, a.feature_column, <<>>, a.top_n_features)
            gap == analyze_gaps(df, a.brand_column, a.feature_column, a.gap_threshold,
                                GapTopNDefault)
            outcomes == <<brand, pricing, feature, gap>>
        IN  /\ call.ret.ok <=> \A i \in 1..4 : outcomes[i].ok
            /\ call.ret.ok =>
                  /\ DOMAIN call.ret.value.agents = {"brand", "pricing", "feature", "gap"}
                  /\ call.ret.value.agents.brand = brand.value
                  /\ call.ret.value.agents.pricing = pricing.value
                  /\ call.ret.value.agents.feature = feature.value
                  /\ call.ret.value.agents.gap = gap.value
            /\ ~call.ret.ok =>
                  /\ call.ret.value = None
                  /\ \E i \in 1..4 : /\ ~outcomes[i].ok
                                     /\ call.ret.error = outcomes[i].error
                                     /\ \A j \in 1..(i - 1) : outcomes[j].ok

\* run_all_agents failed on a table for which the brand aggregator succeeds
\* and the pricing aggregator fails
C10_Witness ==
    /\ call.fn = "run_all_agents"
    /\ ~call.ret.ok
    /\ NRows(df) > 0
    /\ analyze_brands(df, call.args.brand_column, call.args.top_n_brands).ok
    /\ ~analyze_pricing(df, call.args.price_column).ok
    /\ HasColumn(df, call.args.price_column)

---------------------------------------------------------------------------
(* Properties of the summarization *)

\* a summarization of the bundle has been run
Summarized == summary # NoSummary

\* the causes of failure present in a summarization
FailureCauses ==
    LET env == summary.env
        key == IF summary.api_key = None THEN env.GEMINI_API_KEY ELSE summary.api_key
    IN  (IF ~env.package_installed THEN {"missing client package"} ELSE {})
        \cup (IF key \in {None, Str(<<>>)} THEN {"missing API key"} ELSE {})
        \cup (IF ~env.list_models.ok THEN {"model listing failing"}
              ELSE IF \A i \in DOMAIN env.list_models.value :
                        GenerateContent \notin env.list_models.value[i].supported_generation_methods
                   THEN {"model listing empty"} ELSE {})
        \cup (IF ~env.prompt_exists THEN {"prompt template missing"} ELSE {})
        \cup (IF ~env.generate.ok THEN {"generation call failing"} ELSE {})

\* C11: whatever the cause of failure (generation call failing, missing API
\* key, missing client package, model listing failing or empty, prompt
\* template missing), summarize_agent_results returns a dictionary, with
\* status "error" and a message when a cause is present; no exception is
\* raised to the caller, and the bundle of the aggregation is still held.
C11_SummaryFailureIsEnvelope ==
    Summarized =>
        /\ summary.ret.ok
        /\ FailureCauses # {} =>
              /\ summary.ret.value.status = "error"
              /\ "error" \in DOMAIN summary.ret.value
        /\ call.fn = "run_all_agents" /\ call.ret.ok

\* C21: one invocation of the summarizer (summarize_agent_results or
\* summarize_with_gemini) calls generate_content at most once, whether the
\* call succeeds or fails: a failed generation is not retried.
C21_AtMostOneGeneration ==
    Summarized => Len(summary.generated) <= 1

\* a generation call has failed and was the only one made
C21_Witness ==
    /\ Summarized
    /\ ~summary.env.generate.ok
    /\ summary.ret.ok /\ summary.ret.value.status = "error"
    /\ Len(summary.generated) = 1

\* C22: for every requested temperature, the temperature passed to the
\* generation call and the temperature reported in the returned envelope are
\* equal to each other and are min(requested, 0.3).
C22_TemperatureClamped ==
    Summarized /\ summary.ret.ok =>
        /\ summary.ret.value.temperature = QMin(summary.temperature, Q(3, 10))
        /\ summary.generated # <<>>
        /\ \A i \in DOMAIN summary.generated :
              summary.generated[i].temperature = summary.ret.value.temperature

\* a temperature above 0.3 was requested and a generation call was made
C22_Witness ==
    /\ Summarized
    /\ summary.fn = "summarize_with_gemini"
    /\ QLt(Q(3, 10), summary.temperature)
    /\ summary.ret.ok
    /\ summary.generated # <<>>
    /\ summary.generated[1].temperature = Q(3, 10)

\* C29: the "model" field of the envelope returned by summarize_with_gemini
\* names the model that was selected and used for the generation call, for
\* every list of available models.
C29_ModelFieldIsSelectedModel ==
    Summarized /\ summary.ret.ok =>
        \A i \in DOMAIN summary.generated :
            summary.ret.value.model = summary.generated[i].model

---------------------------------------------------------------------------
(* Properties of the validation *)

\* C12: a table returned by validate_and_clean is non-empty and has every
\* required column it was called with, for each of the strategies drop_rows,
\* drop_columns and keep and both values of remove_dupes.
C12_CleanedTableUsable ==
    Returned("validate_and_clean") =>
        /\ NRows(call.ret.value) > 0
        /\ Len(call.ret.value.columns) > 0
        /\ \A c \in Range(call.args.required_columns) : HasColumn(call.ret.value, c)

\* C26: when remove_dupes is true, the table returned by validate_and_clean
\* contains no two identical rows, for every cleaning strategy, and
\* validate_and_clean with the same arguments returns that table unchanged
\* (when the table still has the required columns of the call).
C26_NoDuplicatesLeft ==
    Returned("validate_and_clean") /\ call.args.remove_dupes =>
        /\ \A i, j \in 1..NRows(call.ret.value) :
              call.ret.value.rows[i] = call.ret.value.rows[j] => i = j
        /\ validate_required_columns(call.ret.value, call.args.required_columns) =>
              validate_and_clean(call.ret.value, call.args.required_columns,
                                 call.args.cleaning_strategy, call.args.remove_dupes) = call.ret

---------------------------------------------------------------------------
(* Properties of the result envelopes *)

\* the envelope each aggregator returns on its normal path, taken from a
\* call with the default arguments on a table that has brands, prices,
\* features and gaps
ReferenceEnvelope(fn) ==
    CASE fn = "analyze_brands" -> analyze_brands(BoundaryTable, "brand", TopNBrandsDefault).value
      [] fn = "analyze_pricing" -> analyze_pricing(BoundaryTable, "price").value
      [] fn = "analyze_features" ->
            analyze_features(BoundaryTable, "feature", <<>>, TopNFeaturesDefault).value
      [] fn = "analyze_gaps" ->
            analyze_gaps(BoundaryTable, "brand", "feature", Q(-1, 2), GapTopNDefault).value

\* the fields of a results payload that hold a list of entries
ListFields == {"top_brands", "top_features", "top_gaps", "identified_gaps"}

\* the fields of a results payload that hold a nested record
RecordFields == {"price_statistics", "optimal_price_range"}

\* the field names of the entries of the lists of a payload
EntryFields(results) ==
    UNION {{DOMAIN results[f][i] : i \in DOMAIN results[f]} : f \in DOMAIN results \cap ListFields}

\* env has the field names and the nesting of ref
SameShape(env, ref) ==
    /\ DOMAIN env = DOMAIN ref
    /\ DOMAIN env.results = DOMAIN ref.results
    /\ \A f \in DOMAIN env.results \cap RecordFields :
          DOMAIN env.results[f] = DOMAIN ref.results[f]
    /\ EntryFields(env.results) \subseteq EntryFields(ref.results)

\* C13: every envelope an aggregator returns, the one of the empty-result
\* path included, has the field names and the nesting of the envelope of its
\* normal path; the fields a consumer reads from a normal gap or feature
\* result (top_gaps, identified_gaps_count, total_unique_features) are in
\* every gap or feature result.
C13_StableEnvelopeShape ==
    \A fn \in {"analyze_brands", "analyze_pricing", "analyze_features", "analyze_gaps"} :
        Returned(fn) =>
            /\ SameShape(call.ret.value, ReferenceEnvelope(fn))
            /\ fn = "analyze_gaps" =>
                  {"top_gaps", "identified_gaps_count"} \subseteq DOMAIN call.ret.value.results
            /\ fn = "analyze_features" =>
                  "total_unique_features" \in DOMAIN call.ret.value.results

\* a feature analysis in single-column mode of a non-empty table whose
\* feature column exists and holds missing values only
AllFeaturesMissing ==
    /\ call.fn = "analyze_features"
    /\ call.args.feature_column # "" \/ (call.args.feature_columns = <<>> /\ AutoDetected(df) # <<>>)
    /\ NRows(df) > 0
    /\ HasColumn(df, FeatureSource)
    /\ \A i \in 1..NRows(df) : ~NotNa(df.rows[i][FeatureSource])

\* a gap analysis of a non-empty table that has both columns and no row with
\* both a brand and a feature
NoValidPair ==
    /\ call.fn = "analyze_gaps"
    /\ NRows(df) > 0
    /\ HasColumn(df, call.args.brand_column) /\ HasColumn(df, call.args.feature_column)
    /\ ValidRowIndexes = {}

\* C14: on a non-empty table without a valid observation the aggregator
\* returns instead of failing: analyze_features with an all-missing feature
\* column gives total_features 0, no top_features and confidence 0.0;
\* analyze_gaps with no row holding both brand and feature gives a result of
\* zero combinations and confidence 0.0.
C14_ZeroObservations ==
    /\ AllFeaturesMissing =>
          /\ call.ret.ok
          /\ "total_features" \in DOMAIN call.ret.value.results
          /\ call.ret.value.results.total_features = 0
          /\ call.ret.value.results.top_features = <<>>
          /\ call.ret.value.results.total_records = NRows(df)
          /\ call.ret.value.confidence = 0
    /\ NoValidPair =>
          /\ call.ret.ok
          /\ call.ret.value.results.total_combinations = 0
          /\ call.ret.value.results.total_records = NRows(df)
          /\ call.ret.value.confidence = 0

\* a feature analysis returned for a table of two rows without any feature
C14_Witness ==
    /\ AllFeaturesMissing
    /\ NRows(df) = 2
    /\ call.ret.ok

---------------------------------------------------------------------------
(* Properties of the feature extraction *)

Separators == {",", ";", "|"}

\* the pieces of a text between its separators, read character by
\* character; `piece` is the piece being read
RECURSIVE PiecesOf(_, _)
PiecesOf(chars, piece) ==
    IF chars = <<>> THEN <<piece>>
    ELSE IF Head(chars) \in Separators THEN <<piece>> \o PiecesOf(Tail(chars), <<>>)
    ELSE PiecesOf(Tail(chars), Append(piece, Head(chars)))

\* the tokens a text value stands for: its pieces trimmed and lower-cased,
\* the empty ones dropped
TextTokens(chars) ==
    LET pieces == PiecesOf(chars, <<>>)
        trimmed == [i \in DOMAIN pieces |-> StrLower(StrStrip(pieces[i]))]
    IN  SelectSeq(trimmed, LAMBDA t : t # <<>>)

\* t is the string form of the number n: its digits, followed by ".0" when
\* the column holds floats
IsStringFormOf(t, n) ==
    \/ ToNumeric(Str(t)) = Num(n)
    \/ /\ Len(t) > 2
       /\ SubSeq(t, Len(t) - 1, Len(t)) = <<".", "0">>
       /\ ToNumeric(Str(SubSeq(t, 1, Len(t) - 2))) = Num(n)

\* how often the token t is expected from the cells of a column
RECURSIVE ExpectedCount15(_, _)
ExpectedCount15(cells, t) ==
    IF cells = <<>> THEN 0
    ELSE LET c == Head(cells)
             here == IF c.t = "str" THEN Occurrences(TextTokens(c.s), t)
                     ELSE IF c.t = "num" /\ IsStringFormOf(t, c.n) THEN 1
                     ELSE 0
         IN  here + ExpectedCount15(Tail(cells), t)

\* the tokens expected from the cells of a column
ExpectedTokenSet(cells) ==
    UNION {IF cells[i].t = "str" THEN Range(TextTokens(cells[i].s))
           ELSE IF cells[i].t = "num"
                THEN {IF ColumnDtype(df, FeatureSource) = "float64"
                      THEN DigitsOf(cells[i].n) \o <<".", "0">> ELSE DigitsOf(cells[i].n)}
           ELSE {} : i \in DOMAIN cells}

\* C15: in single-column mode ',', ';' and '|' separate tokens alike: the
\* tokens counted are the pieces of every text value between separators,
\* trimmed and lower-cased, empty pieces dropped; every occurrence adds one
\* to the count of its token; a non-text value counts once, as its string
\* form.
C15_SeparatorsEquivalent ==
    FeaturesCounted =>
        LET cells == Column(df, FeatureSource)
            counted == CountsBehind
        IN  /\ {counted[i].label : i \in DOMAIN counted} = {Str(t) : t \in ExpectedTokenSet(cells)}
            /\ \A i \in DOMAIN counted :
                  counted[i].count = ExpectedCount15(cells, counted[i].label.s)
            /\ \A i \in DOMAIN TopEntries :
                  TopEntries[i].count = ExpectedCount15(cells, TopEntries[i].label.s)

\* features were counted from a column in which one value uses ';' and '|'
\* and another ','
C15_Witness ==
    /\ FeaturesCounted
    /\ FeatureSource = "feature"
    /\ \E i, j \in 1..NRows(df) :
          /\ df.rows[i].feature.t = "str" /\ {";", "|"} \subseteq Range(df.rows[i].feature.s)
          /\ df.rows[j].feature.t = "str" /\ "," \in Range(df.rows[j].feature.s)
    /\ \E k \in DOMAIN TopEntries : TopEntries[k] = Entry(Str(<<"a">>), 3)

\* the name of the column contains "feature", whatever the case of its letters
IsFeatureName(col) ==
    LET lower == StrLower(NameChars(col))
    IN  \E i \in 1..Len(lower) :
            /\ i + 6 <= Len(lower)
            /\ SubSeq(lower, i, i + 6) = <<"f", "e", "a", "t", "u", "r", "e">>

FeatureNamedIndexes == {i \in DOMAIN df.columns : IsFeatureName(df.columns[i])}

\* the first column of the table, in column order, named after features
FirstFeatureNamed ==
    df.columns[CHOOSE i \in FeatureNamedIndexes : \A j \in FeatureNamedIndexes : i <= j]

\* the labels of the entries of a feature envelope
FeatureLabels(env) == {env.results.top_features[i].feature : i \in DOMAIN env.results.top_features}

\* C16: analyze_features reads an explicit single feature column if one is
\* given (whether or not a column list is given too); else an explicit
\* column list, in multi-column mode; else the first column, in table column
\* order, whose name contains "feature" in any case, in single-column mode;
\* else it fails with the no-feature-source error.
C16_SourceSelection ==
    call.fn = "analyze_features" =>
        LET a == call.args
        IN  /\ a.feature_column # "" =>
                  /\ call.ret = analyze_features(df, a.feature_column, <<>>, a.top_n)
                  /\ call.ret.ok => \A l \in FeatureLabels(call.ret.value) : "t" \in DOMAIN l
            /\ (a.feature_column = "" /\ a.feature_columns # <<>>) =>
                  /\ call.ret.ok
                  /\ \A l \in FeatureLabels(call.ret.value) :
                        "column" \in DOMAIN l /\ l.column \in Range(a.feature_columns)
            /\ (a.feature_column = "" /\ a.feature_columns = <<>> /\ FeatureNamedIndexes # {}) =>
                  call.ret = analyze_features(df, FirstFeatureNamed, <<>>, a.top_n)
            /\ (a.feature_column = "" /\ a.feature_columns = <<>> /\ FeatureNamedIndexes = {}) =>
                  /\ ~call.ret.ok
                  /\ call.ret.error = NoFeatureSource

\* the source was detected in a table whose first column named after
\* features is capitalised and is followed by a column "feature" with other
\* values
C16_Witness ==
    /\ call.fn = "analyze_features"
    /\ call.args.feature_column = "" /\ call.args.feature_columns = <<>>
    /\ Cardinality(FeatureNamedIndexes) = 2
    /\ FirstFeatureNamed = "Features"
    /\ call.ret.ok
    /\ call.ret # analyze_features(df, "feature", <<>>, call.args.top_n)

---------------------------------------------------------------------------
(* Properties of the brand and pricing analyses *)

\* the rows of the table whose brand is b
RowsWithBrand(b) == {i \in 1..NRows(df) : df.rows[i][call.args.brand_column] = b}

IsNumeric(c) == c.t = "num" \/ (c.t = "str" /\ c.s # <<>> /\ \A k \in DOMAIN c.s : c.s[k] \in Digits)

\* the rows of the table with a valid price
ValidPriceIndexes == {i \in 1..NRows(df) : IsNumeric(df.rows[i][call.args.price_column])}

\* the price of row i, a row with a valid price
PriceOfRow(i) ==
    LET c == df.rows[i][call.args.price_column]
    IN  IF c.t = "num" THEN c.n ELSE ParseDigits(c.s)

\* C18: analyze_pricing fails with the column-not-found error when the price
\* column is absent and with the no-valid-prices error when no value of the
\* column coerces to a number; otherwise the statistics are those of the
\* valid prices only, and confidence = valid_price_count / total_records.
C18_PricingErrorsAndCoverage ==
    call.fn = "analyze_pricing" =>
        LET col == call.args.price_column
        IN  /\ ~HasColumn(df, col) => call.ret = Raise(ColumnNotFound(col))
            /\ (HasColumn(df, col) /\ ValidPriceIndexes = {}) => call.ret = Raise(NoValidPrices(col))
            /\ (HasColumn(df, col) /\ ValidPriceIndexes # {}) =>
                  LET valid == ValidPriceIndexes
                      count == Cardinality(valid)
                      total == SeqSum([i \in 1..NRows(df) |-> IF i \in valid THEN PriceOfRow(i) ELSE 0])
                      stats == call.ret.value.results.price_statistics
                  IN  /\ call.ret.ok
                      /\ call.ret.value.results.total_records = NRows(df)
                      /\ call.ret.value.results.valid_price_records = count
                      /\ \E i \in valid : stats.min_price = QInt(PriceOfRow(i))
                      /\ \E i \in valid : stats.max_price = QInt(PriceOfRow(i))
                      /\ \A i \in valid : /\ QLeq(stats.min_price, QInt(PriceOfRow(i)))
                                          /\ QLeq(QInt(PriceOfRow(i)), stats.max_price)
                      /\ stats.mean_price = Q(total, count)
                      /\ QLeq(stats.min_price, stats.median_price)
                      /\ QLeq(stats.median_price, stats.max_price)
                      /\ call.ret.value.confidence = Round4(Q(count, NRows(df)))

\* prices were analysed for a table of three rows in which one price is a
\* text that is no number and one is missing
C18_Witness ==
    /\ Returned("analyze_pricing")
    /\ NRows(df) = 3
    /\ \E i, j \in 1..3 : /\ df.rows[i][call.args.price_column] = Str(<<"x">>)
                          /\ df.rows[j][call.args.price_column] = NA
    /\ call.ret.value.results.valid_price_records = 1
    /\ call.ret.value.confidence = 3333

\* the k-th smallest of the valid prices, k in 1..number of valid prices
KthSmallest(k) ==
    CHOOSE v \in {PriceOfRow(i) : i \in ValidPriceIndexes} :
        /\ Cardinality({i \in ValidPriceIndexes : PriceOfRow(i) < v}) < k
        /\ k <= Cardinality({i \in ValidPriceIndexes : PriceOfRow(i) <= v})

\* the percentile qn/qd of the valid prices: with n prices the rank is
\* 1 + (n - 1) * qn / qd, and a rank between two whole ranks gives the mean
\* of the two prices weighted by the distances to them
Percentile(qn, qd) ==
    LET n == Cardinality(ValidPriceIndexes)
        lo == CHOOSE k \in 0..(n - 1) : k * qd <= (n - 1) * qn /\ (n - 1) * qn < (k + 1) * qd
        w == (n - 1) * qn - lo * qd
    IN  IF w = 0 THEN QInt(KthSmallest(lo + 1))
        ELSE Q(KthSmallest(lo + 1) * (qd - w) + KthSmallest(lo + 2) * w, qd)

\* C19: the optimal price range is [Q1, Q3], the 25th and 75th percentiles
\* of the valid prices by linear interpolation between closest ranks, and
\* optimal_range_span = Q3 - Q1; the prices 100, 200, 300, 400 give Q1 = 175,
\* Q3 = 325 and span 150; always min <= Q1 <= median <= Q3 <= max.
C19_QuartileRange ==
    Returned("analyze_pricing") =>
        LET range == call.ret.value.results.optimal_price_range
            stats == call.ret.value.results.price_statistics
            prices == [i \in 1..NRows(df) |-> df.rows[i][call.args.price_column]]
        IN  /\ range.q1_price = Percentile(1, 4)
            /\ range.q3_price = Percentile(3, 4)
            /\ range.median_price = Percentile(1, 2)
            /\ stats.median_price = range.median_price
            /\ range.optimal_range_min = range.q1_price
            /\ range.optimal_range_max = range.q3_price
            /\ QAdd(range.q1_price, range.optimal_range_span) = range.q3_price
            /\ QLeq(stats.min_price, range.q1_price)
            /\ QLeq(range.q1_price, range.median_price)
            /\ QLeq(range.median_price, range.q3_price)
            /\ QLeq(range.q3_price, stats.max_price)
            /\ (NRows(df) = 4 /\ Range(prices) = {Num(100), Num(200), Num(300), Num(400)}) =>
                  /\ range.q1_price = QInt(175)
                  /\ range.q3_price = QInt(325)
                  /\ range.optimal_range_span = QInt(150)

\* the prices 400, 100, 300, 200 were analysed
C19_Witness ==
    /\ Returned("analyze_pricing")
    /\ df = PriceExampleTable
    /\ call.ret.value.results.optimal_price_range.q1_price = QInt(175)
    /\ call.ret.value.results.optimal_price_range.optimal_range_span = QInt(150)

---------------------------------------------------------------------------
(* Properties of the bundle *)

\* the caller holds a bundle
Bundled == call.fn = "run_all_agents" /\ call.ret.ok

\* the timestamps of the four agent results of the bundle and the bundle's own
AgentTimestamps == {timestamps[i] : i \in 1..4}
BundleTimestamp == timestamps[5]

\* C20: the timestamp of the bundle is the timestamp of each of its four
\* agent results, and the total_records of the bundle is the total_records
\* inside each agent result.
C20_SharedTimestampAndTotal ==
    Bundled =>
        /\ AgentTimestamps = {BundleTimestamp}
        /\ \A a \in DOMAIN call.ret.value.agents :
              call.ret.value.agents[a].results.total_records = call.ret.value.total_records

---------------------------------------------------------------------------
(* Properties of the table the aggregators read *)

\* the outcome of the aggregator a run alone on the table d with the
\* arguments run_all_agents passes it
AloneOutcome(a, args, d) ==
    CASE a = "brand" -> analyze_brands(d, args.brand_column, args.top_n_brands)
      [] a = "pricing" -> analyze_pricing(d, args.price_column)
      [] a = "feature" -> analyze_features(d, args.feature_column, <<>>, args.top_n_features)
      [] a = "gap" -> analyze_gaps(d, args.brand_column, args.feature_column,
                                   args.gap_threshold, GapTopNDefault)

---------------------------------------------------------------------------
(* Properties of the gap lists *)

\* the combinations of the frame that analyze_gaps is to flag
Flagged ==
    {i \in DOMAIN GapFrame : /\ QLeq(GapFrame[i].gap_score, call.args.gap_threshold)
                             /\ GapFrame[i].count >= 1}

\* the least multiple of 10^-4 that is not below x, in units of 10^-4
Ceil4(x) == -FloorDiv(-(x[1] * 10000), x[2])

\* the sizes of the gap list and the order it is cut in
GapListCut ==
    LET results == call.ret.value.results
    IN  /\ Len(results.top_gaps) = Min(call.args.top_n, results.identified_gaps_count)
        /\ results.identified_gaps_count <= results.total_combinations
        /\ \A i \in DOMAIN results.top_gaps : results.top_gaps[i].observed_count >= 1
        /\ \A u \in Flagged : ~Listed(GapFrame[u]) =>
              \A l \in Flagged : Listed(GapFrame[l]) =>
                  ~QLt(GapFrame[u].gap_score, GapFrame[l].gap_score)

\* C30 as claimed: in every non-empty gap result, the number of entries in
\* top_gaps equals min(top_n, identified_gaps_count), identified_gaps_count
\* <= total_combinations, every entry of top_gaps has gap_score <=
\* gap_threshold and observed_count >= 1, and no unlisted flagged combination
\* has a strictly smaller gap_score than a listed one.
C30_Original ==
    GapAnalysed =>
        /\ GapListCut
        /\ \A i \in DOMAIN call.ret.value.results.top_gaps :
              QLeq(Q(call.ret.value.results.top_gaps[i].gap_score, 10000),
                   call.args.gap_threshold)

\* C30 as amended: the same, with every entry of top_gaps being a flagged
\* combination (unrounded gap_score <= gap_threshold, observed_count >= 1)
\* reported with its gap_score rounded to 4 decimals, which is <=
\* gap_threshold rounded up to 4 decimals.
C30_GapListOfFlagged ==
    GapAnalysed =>
        /\ GapListCut
        /\ \A i \in DOMAIN call.ret.value.results.top_gaps :
              LET g == call.ret.value.results.top_gaps[i]
              IN  /\ \E f \in Flagged :
                        /\ GapFrame[f].brand = g.brand /\ GapFrame[f].feature = g.feature
                        /\ GapFrame[f].count = g.observed_count
                        /\ Round4(GapFrame[f].gap_score) = g.gap_score
                  /\ g.gap_score <= Ceil4(call.args.gap_threshold)

\* a gap list cut short by top_n holds an entry whose rounded score is above
\* the threshold it was flagged with
C30_Witness ==
    /\ GapAnalysed
    /\ Len(call.ret.value.results.top_gaps) < call.ret.value.results.identified_gaps_count
    /\ \E i \in DOMAIN call.ret.value.results.top_gaps :
          ~QLeq(Q(call.ret.value.results.top_gaps[i].gap_score, 10000),
                call.args.gap_threshold)

---------------------------------------------------------------------------
(* Properties of the scored combinations *)

\* C24: for every combination produced by calculate_expected_frequency,
\* gap_score is finite, and greater than -1 for an observed count >= 1,
\* whenever expected_count > 0, and is exactly 0.0 whenever expected_count is
\* 0; with total_records = 0 every expected_count and gap_score is 0.0.
C24_GapScoreDefined ==
    Returned("calculate_expected_frequency") =>
        \A i \in DOMAIN call.ret.value :
            LET c == call.ret.value[i]
            IN  /\ c.count = call.args.combination_counts[i].count
                /\ c.expected_count[2] > 0
                /\ c.gap_score[2] > 0
                /\ QLt(QInt(0), c.expected_count) /\ c.count >= 1 =>
                      QLt(QInt(-1), c.gap_score)
                /\ c.expected_count = QInt(0) => c.gap_score = QInt(0)
                /\ call.args.total_records = 0 =>
                      c.expected_count = QInt(0) /\ c.gap_score = QInt(0)

\* combinations have been scored with total_records = 0
C24_Witness ==
    /\ Returned("calculate_expected_frequency")
    /\ call.args.total_records = 0
    /\ Len(call.ret.value) > 1

---------------------------------------------------------------------------
(* Properties of the dashboard.                                            *)

\* C25: the table a run of the dashboard validates and analyses is the
\* content of the file uploaded in that run, whatever was uploaded before by
\* the same session or by another session of the server process.
C25_UploadedTableAnalysed ==
    \A s \in Sessions :
        session[s].pc \in {"loaded", "analysed"} => session[s].df = Uploads[session[s].upload]

\* C27: after a successful analysis whose result sections were all shown, the
\* results are stored, the export section is reached and the temporary file
\* is removed, with the AI summary disabled, succeeded or failed.
C27_ExportReached ==
    (page.upload # 0 /\ page.shown.analysed /\ ~page.shown.raised) =>
        /\ page.shown.stored
        /\ \E i \in DOMAIN page.shown.rendered : page.shown.rendered[i] = "export"
        /\ page.shown.cleaned_up

\* C28: when run_all_agents fails in the dashboard, the failure is reported
\* once, as an analysis error, no result section is rendered and the absent
\* results are never read.
C28_FailureReportedOnce ==
    (page.upload # 0 /\ page.shown.errors # <<>> /\ page.shown.errors[1] = "Error during analysis") =>
        /\ page.shown.errors = <<"Error during analysis">>
        /\ page.shown.rendered = <<>>
        /\ ~page.shown.read_none

====
